---- MODULE Spec2Model ----
(***************************************************************************)
(* Kubernetes NetworkPolicy configuration manager and generator.           *)
(*                                                                         *)
(*   NetworkPolicyConfigManager  pytest_yaml_tutorial/src/config_manager.py*)
(*   NetworkPolicyGenerator      sdn-everything/src/network_policies.py    *)
(*                                                                         *)
(* Python values are tagged records [t |-> <type name>, v |-> <payload>],  *)
(* so that a document may hold a value of the wrong shape (None where a      *)
(* mapping is expected, a string where a list is expected) and the model   *)
(* can say which Python exception the code then raises.                    *)
(***************************************************************************)
EXTENDS Integers, Sequences, FiniteSets, TLC

VARIABLES
    config,     \* the document the manager's caller works on (mutated in place)
    configs,    \* NetworkPolicyConfigManager.configs
    policies,   \* NetworkPolicyGenerator.policies
    file,       \* what is stored under the path that is written and read
    processed_policies,  \* NetworkPolicyWorkflow.processed_policies
    validation_errors,   \* NetworkPolicyWorkflow.validation_errors
    operation_log,       \* NetworkPolicyWorkflow.operation_log
    last        \* the last call: operation, arguments, outcome

vars == <<config, configs, policies, file,
          processed_policies, validation_errors, operation_log, last>>

\* the state of a NetworkPolicyWorkflow
workflow == <<processed_policies, validation_errors, operation_log>>

----------------------------------------------------------------------------
(* Bounds of the model                                                     *)

MaxTypes == 2       \* longest spec.policyTypes list among the candidate documents
MaxRules == 2       \* most ingress rules added to one document
MaxPolicies == 2    \* most policies kept by one generator
MaxDocs == 2        \* most documents handed to one save_multiple_configs call

----------------------------------------------------------------------------
(* Python values                                                           *)

PyNone == [t |-> "NoneType"]
PyStr(s) == [t |-> "str", v |-> s]
PyInt(n) == [t |-> "int", v |-> n]
PyBool(b) == [t |-> "bool", v |-> b]
PyList(s) == [t |-> "list", v |-> s]
PyDict(f) == [t |-> "dict", v |-> f]

EmptyDict == PyDict(<<>>)

\* d with d[k] = x, k a new or an existing key
DictSet(d, k, x) ==
    PyDict([j \in DOMAIN d.v \cup {k} |-> IF j = k THEN x ELSE d.v[j]])

\* the characters of the strings that the model iterates or searches
Chars(s) ==
    CASE s = "" -> <<>>
      [] s = "name" -> <<"n", "a", "m", "e">>
      [] s = "podSelector" -> <<"p", "o", "d", "S", "e", "l", "e", "c", "t", "o", "r">>
      [] s = "policyTypes" -> <<"p", "o", "l", "i", "c", "y", "T", "y", "p", "e", "s">>
      [] s = "Ingress" -> <<"I", "n", "g", "r", "e", "s", "s">>
      [] s = "Egress" -> <<"E", "g", "r", "e", "s", "s">>
      [] s = "policy.yaml" ->
           <<"p", "o", "l", "i", "c", "y", ".", "y", "a", "m", "l">>
      [] s = "not found" ->
           <<"n", "o", "t", " ", "f", "o", "u", "n", "d">>
      [] s = "Invalid YAML" ->
           <<"I", "n", "v", "a", "l", "i", "d", " ", "Y", "A", "M", "L">>
      [] s = "Empty configuration" ->
           <<"E", "m", "p", "t", "y", " ", "c", "o", "n", "f", "i", "g", "u", "r", "a", "t", "i", "o", "n">>
      [] s = "Configuration file not found: " ->
           <<"C", "o", "n", "f", "i", "g", "u", "r", "a", "t", "i", "o", "n", " ", "f", "i", "l", "e", " ", "n", "o", "t", " ", "f", "o", "u", "n", "d", ":", " ">>
      [] s = "Invalid YAML in " ->
           <<"I", "n", "v", "a", "l", "i", "d", " ", "Y", "A", "M", "L", " ", "i", "n", " ">>
      [] s = "Empty configuration file: " ->
           <<"E", "m", "p", "t", "y", " ", "c", "o", "n", "f", "i", "g", "u", "r", "a", "t", "i", "o", "n", " ", "f", "i", "l", "e", ":", " ">>
      [] s = "Error loading " ->
           <<"E", "r", "r", "o", "r", " ", "l", "o", "a", "d", "i", "n", "g", " ">>
      [] s = "Error loading multiple configs: " ->
           <<"E", "r", "r", "o", "r", " ", "l", "o", "a", "d", "i", "n", "g", " ", "m", "u", "l", "t", "i", "p", "l", "e", " ", "c", "o", "n", "f", "i", "g", "s", ":", " ">>
      [] s = "Error saving config: " ->
           <<"E", "r", "r", "o", "r", " ", "s", "a", "v", "i", "n", "g", " ", "c", "o", "n", "f", "i", "g", ":", " ">>
      [] s = "Error saving multiple configs: " ->
           <<"E", "r", "r", "o", "r", " ", "s", "a", "v", "i", "n", "g", " ", "m", "u", "l", "t", "i", "p", "l", "e", " ", "c", "o", "n", "f", "i", "g", "s", ":", " ">>
      [] s = ": " ->
           <<":", " ">>
      [] s = "[Errno 2] No such file or directory: " ->
           <<"[", "E", "r", "r", "n", "o", " ", "2", "]", " ", "N", "o", " ", "s", "u", "c", "h", " ", "f", "i", "l", "e", " ", "o", "r", " ", "d", "i", "r", "e", "c", "t", "o", "r", "y", ":", " ">>
      [] s = "[Errno 13] Permission denied: " ->
           <<"[", "E", "r", "r", "n", "o", " ", "1", "3", "]", " ", "P", "e", "r", "m", "i", "s", "s", "i", "o", "n", " ", "d", "e", "n", "i", "e", "d", ":", " ">>
      [] s = "while parsing a flow sequence" ->
           <<"w", "h", "i", "l", "e", " ", "p", "a", "r", "s", "i", "n", "g", " ", "a", " ", "f", "l", "o", "w", " ", "s", "e", "q", "u", "e", "n", "c", "e">>
      [] s = "expected a single document in the stream" ->
           <<"e", "x", "p", "e", "c", "t", "e", "d", " ", "a", " ", "s", "i", "n", "g", "l", "e", " ", "d", "o", "c", "u", "m", "e", "n", "t", " ", "i", "n", " ", "t", "h", "e", " ", "s", "t", "r", "e", "a", "m">>
      [] s = "   " ->
           <<" ", " ", " ">>
      [] s = "test_name" ->
           <<"t", "e", "s", "t", "_", "n", "a", "m", "e">>
      [] s = "test!name" ->
           <<"t", "e", "s", "t", "!", "n", "a", "m", "e">>
      [] s = "-testname" ->
           <<"-", "t", "e", "s", "t", "n", "a", "m", "e">>
      [] s = "testname-" ->
           <<"t", "e", "s", "t", "n", "a", "m", "e", "-">>
      [] s = "Test Name" ->
           <<"T", "e", "s", "t", " ", "N", "a", "m", "e">>
      [] s = "123-name" ->
           <<"1", "2", "3", "-", "n", "a", "m", "e">>
      [] s = "test-policy" ->
           <<"t", "e", "s", "t", "-", "p", "o", "l", "i", "c", "y">>
      [] s = "web.app" ->
           <<"w", "e", "b", ".", "a", "p", "p">>

\* sub in s, for strings
IsSubstring(sub, s) ==
    LET a == Chars(sub)
        b == Chars(s)
    IN \E i \in 1..(Len(b) + 1) :
           /\ i + Len(a) - 1 <= Len(b)
           /\ SubSeq(b, i, i + Len(a) - 1) = a

\* `k in x` raises TypeError unless x is a container
CanContain(x) == x.t \in {"dict", "list", "str"}

\* `k in x` for a string k and a container x
Contains(x, k) ==
    CASE x.t = "dict" -> k \in DOMAIN x.v
      [] x.t = "list" -> \E i \in 1..Len(x.v) : x.v[i] = PyStr(k)
      [] x.t = "str" -> IsSubstring(k, x.v)

\* x[k] for a string k raises TypeError unless x is a dict (KeyError if k is absent)
CanSubscript(x) == x.t = "dict"

\* `for e in x` raises TypeError unless x is iterable
Iterable(x) == x.t \in {"dict", "list", "str"}

RECURSIVE SetToSeq(_)
SetToSeq(S) ==
    IF S = {} THEN <<>>
    ELSE LET e == CHOOSE e \in S : TRUE IN <<e>> \o SetToSeq(S \ {e})

\* the elements `for e in x` visits, in order (a dict yields its keys; the
\* encoding keeps no insertion order, and the dicts iterated here have at
\* most one key)
Iter(x) ==
    CASE x.t = "list" -> x.v
      [] x.t = "str" -> [i \in 1..Len(Chars(x.v)) |-> PyStr(Chars(x.v)[i])]
      [] x.t = "dict" -> LET ks == SetToSeq(DOMAIN x.v)
                         IN [i \in 1..Len(ks) |-> PyStr(ks[i])]

\* `e in lst` for a Python list given as a sequence
InList(e, lst) == \E i \in 1..Len(lst) : lst[i] = e

\* bool(x)
Truthy(x) ==
    CASE x.t = "NoneType" -> FALSE
      [] x.t = "bool" -> x.v
      [] x.t = "int" -> x.v # 0
      [] x.t = "str" -> x.v # ""
      [] x.t = "list" -> x.v # <<>>
      [] x.t = "dict" -> DOMAIN x.v # {}

\* outcomes of a call
Return(x) == [kind |-> "return", value |-> x]
Raise(exc, check, text, args) ==
    [kind |-> "raise", exc |-> exc, check |-> check, text |-> text, args |-> args]

Returned(r) == r.kind = "return"
Raised(r, exc) == r.kind = "raise" /\ r.exc = exc

----------------------------------------------------------------------------
(* NetworkPolicyConfigManager                                              *)

validation_rules ==
    [required_fields |-> <<"apiVersion", "kind", "metadata", "spec">>,
     api_version |-> PyStr("networking.k8s.io/v1"),
     kind |-> PyStr("NetworkPolicy"),
     required_metadata |-> <<"name">>,
     required_spec |-> <<"podSelector">>,
     valid_policy_types |-> <<PyStr("Ingress"), PyStr("Egress")>>]

\* the names of a sequence of field names, as a Python list of str
StrList(names) == PyList([i \in 1..Len(names) |-> PyStr(names[i])])

Pass == [kind |-> "pass"]
Passed(r) == r.kind = "pass"

\* the exception x[k] raises for a string k ("none" when it raises nothing)
SubscriptError(x, k) ==
    IF x.t # "dict" THEN "TypeError"
    ELSE IF k \notin DOMAIN x.v THEN "KeyError"
    ELSE "none"

\* a variant that stops at the first missing field
missing_fields_first(cfg) ==
    SubSeq(SelectSeq(validation_rules.required_fields, LAMBDA f : ~Contains(cfg, f)),
           1, 1)

\* lines 109-112: the required top-level fields that config lacks, in rule order
missing_fields(cfg) ==
    SelectSeq(validation_rules.required_fields, LAMBDA f : ~Contains(cfg, f))

\* lines 108-115
CheckRequiredFields(cfg) ==
    IF missing_fields(cfg) # <<>>
    THEN Raise("ConfigValidationError", 1, "Missing required fields: ",
               <<StrList(missing_fields(cfg))>>)
    ELSE Pass

\* lines 117-122
CheckApiVersion(cfg) ==
    IF SubscriptError(cfg, "apiVersion") # "none"
    THEN Raise(SubscriptError(cfg, "apiVersion"), 2, "", <<>>)
    ELSE IF cfg.v.apiVersion # validation_rules.api_version
    THEN Raise("ConfigValidationError", 2, "Invalid apiVersion: ",
               <<cfg.v.apiVersion, validation_rules.api_version>>)
    ELSE Pass

\* a variant that never compares kind
CheckKindSkipped(cfg) ==
    IF SubscriptError(cfg, "kind") # "none"
    THEN Raise(SubscriptError(cfg, "kind"), 3, "", <<>>)
    ELSE Pass

\* lines 124-129
CheckKind(cfg) ==
    IF SubscriptError(cfg, "kind") # "none"
    THEN Raise(SubscriptError(cfg, "kind"), 3, "", <<>>)
    ELSE IF cfg.v.kind # validation_rules.kind
    THEN Raise("ConfigValidationError", 3, "Invalid kind: ",
               <<cfg.v.kind, validation_rules.kind>>)
    ELSE Pass

\* lines 133-135 and 139-141: `for field in required: if field not in section:
\* raise ConfigValidationError(f"Missing <where>.{field}")`
CheckSection(section, required, check, where) ==
    LET missing == SelectSeq(required, LAMBDA f : ~Contains(section, f))
    IN IF required = <<>> THEN Pass
       ELSE IF ~CanContain(section) THEN Raise("TypeError", check, "", <<>>)
       ELSE IF missing # <<>>
       THEN Raise("ConfigValidationError", check, where, <<PyStr(missing[1])>>)
       ELSE Pass

\* lines 131-135
CheckMetadata(cfg) ==
    IF SubscriptError(cfg, "metadata") # "none"
    THEN Raise(SubscriptError(cfg, "metadata"), 4, "", <<>>)
    ELSE CheckSection(cfg.v.metadata, validation_rules.required_metadata,
                      4, "Missing metadata.")

\* lines 137-141
CheckSpec(cfg) ==
    IF SubscriptError(cfg, "spec") # "none"
    THEN Raise(SubscriptError(cfg, "spec"), 5, "", <<>>)
    ELSE CheckSection(cfg.v.spec, validation_rules.required_spec,
                      5, "Missing spec.")

\* lines 145-147: the elements of policyTypes outside valid_policy_types, in order
InvalidTypes(pt) ==
    SelectSeq(Iter(pt), LAMBDA e : ~InList(e, validation_rules.valid_policy_types))

\* a variant that reports the last invalid element
ReportLastInvalidType(invalid) ==
    Raise("ConfigValidationError", 6, "Invalid policyType: ", <<invalid[Len(invalid)]>>)

\* lines 146-147: the loop raises at the first invalid element
ReportInvalidTypes(invalid) ==
    Raise("ConfigValidationError", 6, "Invalid policyType: ", <<invalid[1]>>)

\* lines 143-147
CheckPolicyTypes(cfg) ==
    IF SubscriptError(cfg, "spec") # "none"
    THEN Raise(SubscriptError(cfg, "spec"), 6, "", <<>>)
    ELSE LET spec == cfg.v.spec
         IN IF ~CanContain(spec) THEN Raise("TypeError", 6, "", <<>>)
            ELSE IF ~Contains(spec, "policyTypes") THEN Pass
            ELSE IF SubscriptError(spec, "policyTypes") # "none"
            THEN Raise(SubscriptError(spec, "policyTypes"), 6, "", <<>>)
            ELSE IF ~Iterable(spec.v.policyTypes)
            THEN Raise("TypeError", 6, "", <<>>)
            ELSE IF InvalidTypes(spec.v.policyTypes) # <<>>
            THEN ReportInvalidTypes(InvalidTypes(spec.v.policyTypes))
            ELSE Pass

\* line 149: the log line reads metadata['name'], then line 150 returns True
LogValidationPassed(cfg) ==
    IF SubscriptError(cfg.v.metadata, "name") # "none"
    THEN Raise(SubscriptError(cfg.v.metadata, "name"), 7, "", <<>>)
    ELSE Return(PyBool(TRUE))

\* the checks of validate_network_policy, numbered in source order
Check(i, cfg) ==
    CASE i = 1 -> CheckRequiredFields(cfg)
      [] i = 2 -> CheckApiVersion(cfg)
      [] i = 3 -> CheckKind(cfg)
      [] i = 4 -> CheckMetadata(cfg)
      [] i = 5 -> CheckSpec(cfg)
      [] i = 6 -> CheckPolicyTypes(cfg)

\* a variant that checks kind before apiVersion
CheckOrderKindFirst == <<1, 3, 2, 4, 5, 6>>

\* the order in which lines 108-147 run the checks
CheckOrder == <<1, 2, 3, 4, 5, 6>>

\* the statements run one after the other; the first exception ends the call
RECURSIVE RunChecks(_, _)
RunChecks(order, cfg) ==
    IF order = <<>> THEN LogValidationPassed(cfg)
    ELSE IF Passed(Check(Head(order), cfg)) THEN RunChecks(Tail(order), cfg)
    ELSE Check(Head(order), cfg)

\* validate_network_policy(config): True, or the exception raised
validate_network_policy(cfg) == RunChecks(CheckOrder, cfg)

\* a variant that misspells a policy type
generate_basic_policy_lowercase(name, namespace, app_label) ==
    PyDict([apiVersion |-> PyStr("networking.k8s.io/v1"),
            kind |-> PyStr("NetworkPolicy"),
            metadata |-> PyDict([name |-> name,
                                 namespace |-> namespace,
                                 labels |-> PyDict("generated-by" :> PyStr("config-manager"))]),
            spec |-> PyDict([podSelector |->
                                 PyDict([matchLabels |-> PyDict([app |-> app_label])]),
                             policyTypes |-> PyList(<<PyStr("ingress"), PyStr("Egress")>>)])])

\* lines 165-186
generate_basic_policy(name, namespace, app_label) ==
    PyDict([apiVersion |-> PyStr("networking.k8s.io/v1"),
            kind |-> PyStr("NetworkPolicy"),
            metadata |-> PyDict([name |-> name,
                                 namespace |-> namespace,
                                 labels |-> PyDict("generated-by" :> PyStr("config-manager"))]),
            spec |-> PyDict([podSelector |->
                                 PyDict([matchLabels |-> PyDict([app |-> app_label])]),
                             policyTypes |-> PyList(<<PyStr("Ingress"), PyStr("Egress")>>)])])

\* marks an optional argument that the caller left out
Omitted == [t |-> "omitted"]

\* the value a parameter with default None holds
ArgOrNone(x) == IF x = Omitted THEN PyNone ELSE x

\* lines 205-207: rule = {'from': from_selectors}; if ports: rule['ports'] = ports
IngressRule(from_selectors, ports) ==
    IF Truthy(ArgOrNone(ports))
    THEN PyDict([from |-> from_selectors, ports |-> ports])
    ELSE PyDict([from |-> from_selectors])

\* the effect of a call on the document it was given, with its outcome
Effect(doc, result) == [doc |-> doc, result |-> result]

\* a variant that appends 'Ingress' without looking for it
EnsureIngressTypeAlways(cfg) ==
    LET spec == cfg.v.spec
    IN IF SubscriptError(spec, "policyTypes") # "none"
       THEN Effect(cfg, Raise(SubscriptError(spec, "policyTypes"), 212, "", <<>>))
       ELSE IF spec.v.policyTypes.t # "list"
       THEN Effect(cfg, Raise("AttributeError", 213, "", <<>>))
       ELSE LET types == PyList(Append(spec.v.policyTypes.v, PyStr("Ingress")))
                done == DictSet(cfg, "spec", DictSet(spec, "policyTypes", types))
            IN Effect(done, Return(done))

\* lines 211-213, on the document that already holds the new rule
EnsureIngressType(cfg) ==
    LET spec == cfg.v.spec
    IN IF SubscriptError(spec, "policyTypes") # "none"
       THEN Effect(cfg, Raise(SubscriptError(spec, "policyTypes"), 212, "", <<>>))
       ELSE IF ~CanContain(spec.v.policyTypes)
       THEN Effect(cfg, Raise("TypeError", 212, "", <<>>))
       ELSE IF Contains(spec.v.policyTypes, "Ingress")
       THEN Effect(cfg, Return(cfg))
       ELSE IF spec.v.policyTypes.t # "list"
       THEN Effect(cfg, Raise("AttributeError", 213, "", <<>>))
       ELSE LET types == PyList(Append(spec.v.policyTypes.v, PyStr("Ingress")))
                done == DictSet(cfg, "spec", DictSet(spec, "policyTypes", types))
            IN Effect(done, Return(done))

\* a variant that puts the new rule before the existing ones
AppendIngressRuleFirst(cfg, rule) ==
    LET spec == cfg.v.spec
    IN IF spec.v.ingress.t # "list"
       THEN Effect(cfg, Raise("AttributeError", 209, "", <<>>))
       ELSE EnsureIngressType(
                DictSet(cfg, "spec",
                        DictSet(spec, "ingress", PyList(<<rule>> \o spec.v.ingress.v))))

\* line 209, on a document whose spec is a dict with an ingress key
AppendIngressRule(cfg, rule) ==
    LET spec == cfg.v.spec
    IN IF spec.v.ingress.t # "list"
       THEN Effect(cfg, Raise("AttributeError", 209, "", <<>>))
       ELSE EnsureIngressType(
                DictSet(cfg, "spec",
                        DictSet(spec, "ingress", PyList(Append(spec.v.ingress.v, rule)))))

\* add_ingress_rule(config, from_selectors, ports): the document as the call
\* leaves it, and what the call returns or raises
add_ingress_rule(cfg, from_selectors, ports) ==
    IF SubscriptError(cfg, "spec") # "none"
    THEN Effect(cfg, Raise(SubscriptError(cfg, "spec"), 202, "", <<>>))
    ELSE IF ~CanContain(cfg.v.spec)
    THEN Effect(cfg, Raise("TypeError", 202, "", <<>>))
    ELSE IF cfg.v.spec.t # "dict"
    THEN Effect(cfg, Raise("TypeError",
                           IF Contains(cfg.v.spec, "ingress") THEN 209 ELSE 203,
                           "", <<>>))
    ELSE IF ~Contains(cfg.v.spec, "ingress")
    THEN AppendIngressRule(
             DictSet(cfg, "spec", DictSet(cfg.v.spec, "ingress", PyList(<<>>))),
             IngressRule(from_selectors, ports))
    ELSE AppendIngressRule(cfg, IngressRule(from_selectors, ports))

----------------------------------------------------------------------------
(* NetworkPolicyGenerator                                                  *)

\* x.get(k) raises AttributeError unless x is a dict
CanGet(x) == x.t = "dict"

\* x.get(k): the value, or None when k is absent
Get(x, k) == IF k \in DOMAIN x.v THEN x.v[k] ELSE PyNone

\* a variant that does not compare apiVersion
PolicyChecksAnyVersion(policy) ==
    IF ~CanContain(policy) THEN PyNone
    ELSE IF \E f \in {"apiVersion", "kind", "metadata", "spec"} : ~Contains(policy, f)
    THEN PyBool(FALSE)
    ELSE IF ~CanSubscript(policy) THEN PyNone
    ELSE IF policy.v.kind # PyStr("NetworkPolicy") THEN PyBool(FALSE)
    ELSE IF ~CanGet(policy.v.metadata) THEN PyNone
    ELSE IF ~Truthy(Get(policy.v.metadata, "name")) THEN PyBool(FALSE)
    ELSE IF ~CanContain(policy.v.spec) THEN PyNone
    ELSE IF ~Contains(policy.v.spec, "podSelector") THEN PyBool(FALSE)
    ELSE IF ~Contains(policy.v.spec, "policyTypes") THEN PyBool(FALSE)
    ELSE IF SubscriptError(policy.v.spec, "policyTypes") # "none" THEN PyNone
    ELSE IF ~Iterable(policy.v.spec.v.policyTypes) THEN PyNone
    ELSE IF \E i \in 1..Len(Iter(policy.v.spec.v.policyTypes)) :
                ~InList(Iter(policy.v.spec.v.policyTypes)[i],
                        <<PyStr("Ingress"), PyStr("Egress")>>)
    THEN PyBool(FALSE)
    ELSE PyBool(TRUE)

\* lines 109-147: the checks of validate_policy, None standing for an
\* exception raised inside the try block
PolicyChecks(policy) ==
    IF ~CanContain(policy) THEN PyNone
    ELSE IF \E f \in {"apiVersion", "kind", "metadata", "spec"} : ~Contains(policy, f)
    THEN PyBool(FALSE)
    ELSE IF ~CanSubscript(policy) THEN PyNone
    ELSE IF policy.v.apiVersion # PyStr("networking.k8s.io/v1") THEN PyBool(FALSE)
    ELSE IF policy.v.kind # PyStr("NetworkPolicy") THEN PyBool(FALSE)
    ELSE IF ~CanGet(policy.v.metadata) THEN PyNone
    ELSE IF ~Truthy(Get(policy.v.metadata, "name")) THEN PyBool(FALSE)
    ELSE IF ~CanContain(policy.v.spec) THEN PyNone
    ELSE IF ~Contains(policy.v.spec, "podSelector") THEN PyBool(FALSE)
    ELSE IF ~Contains(policy.v.spec, "policyTypes") THEN PyBool(FALSE)
    ELSE IF SubscriptError(policy.v.spec, "policyTypes") # "none" THEN PyNone
    ELSE IF ~Iterable(policy.v.spec.v.policyTypes) THEN PyNone
    ELSE IF \E i \in 1..Len(Iter(policy.v.spec.v.policyTypes)) :
                ~InList(Iter(policy.v.spec.v.policyTypes)[i],
                        <<PyStr("Ingress"), PyStr("Egress")>>)
    THEN PyBool(FALSE)
    ELSE PyBool(TRUE)

\* a variant without the `except Exception` clause
validate_policy_uncaught(policy) == PolicyChecks(policy)

\* validate_policy(policy), lines 106-151: `except Exception` returns False
validate_policy(policy) ==
    IF PolicyChecks(policy) = PyNone THEN PyBool(FALSE) ELSE PolicyChecks(policy)

\* lines 42-59: the document before the rule lists are attached
IsolationSkeleton(namespace, app_label) ==
    PyDict([apiVersion |-> PyStr("networking.k8s.io/v1"),
            kind |-> PyStr("NetworkPolicy"),
            metadata |->
                PyDict([name |-> PyStr(app_label.v \o "-isolation-policy"),
                        namespace |-> namespace,
                        labels |-> PyDict("generated-by" :> PyStr("sdn-tutorial")
                                          @@ "app" :> app_label)]),
            spec |-> PyDict([podSelector |->
                                 PyDict([matchLabels |-> PyDict([app |-> app_label])]),
                             policyTypes |-> PyList(<<>>)])])

\* a variant that records the key of the rules as their policy type
AttachRulesByKey(policy, kind, key, rules) ==
    DictSet(policy, "spec",
            DictSet(DictSet(policy.v.spec, "policyTypes",
                            PyList(Append(policy.v.spec.v.policyTypes.v, PyStr(key)))),
                    key, rules))

\* policy['spec']['policyTypes'].append(kind); policy['spec'][key] = rules
AttachRules(policy, kind, key, rules) ==
    DictSet(policy, "spec",
            DictSet(DictSet(policy.v.spec, "policyTypes",
                            PyList(Append(policy.v.spec.v.policyTypes.v, PyStr(kind)))),
                    key, rules))

\* lines 61-64
WithIngress(policy, allowed_ingress) ==
    IF allowed_ingress # PyNone
    THEN AttachRules(policy, "Ingress", "ingress", allowed_ingress)
    ELSE policy

\* lines 66-69
WithEgress(policy, allowed_egress) ==
    IF allowed_egress # PyNone
    THEN AttachRules(policy, "Egress", "egress", allowed_egress)
    ELSE policy

\* a variant without the default-deny fallback
WithDefaultDenySkipped(policy) == policy

\* lines 71-74
WithDefaultDeny(policy) ==
    IF ~Truthy(policy.v.spec.v.policyTypes)
    THEN DictSet(policy, "spec",
                 DictSet(policy.v.spec, "policyTypes",
                         PyList(<<PyStr("Ingress"), PyStr("Egress")>>)))
    ELSE policy

\* lines 42-74: the document create_isolation_policy builds
BuildIsolationPolicy(namespace, app_label, allowed_ingress, allowed_egress) ==
    WithDefaultDeny(
        WithEgress(
            WithIngress(IsolationSkeleton(namespace, app_label), allowed_ingress),
            allowed_egress))

\* the effect of a generator call: the store as the call leaves it, and its outcome
StoreEffect(store, result) == [policies |-> store, result |-> result]

\* the positions of store that hold a policy named like policy
SameName(store, policy) ==
    {i \in 1..Len(store) : store[i].v.metadata.v.name = policy.v.metadata.v.name}

\* a variant that replaces a stored policy of the same name
create_isolation_policy_dedup(store, namespace, app_label, allowed_ingress, allowed_egress) ==
    LET policy == BuildIsolationPolicy(namespace, app_label,
                                       allowed_ingress, allowed_egress)
    IN IF SameName(store, policy) # {}
       THEN StoreEffect([i \in 1..Len(store) |->
                            IF i \in SameName(store, policy) THEN policy ELSE store[i]],
                        Return(policy))
       ELSE StoreEffect(Append(store, policy), Return(policy))

\* a variant that stores the document before looking at the verdict
FinishIsolationPolicyStoreFirst(store, policy, app_label, verdict) ==
    IF ~Truthy(verdict)
    THEN StoreEffect(Append(store, policy),
                     Raise("ValueError", 78, "Generated policy failed validation",
                           <<app_label>>))
    ELSE StoreEffect(Append(store, policy), Return(policy))

\* lines 76-82 for the built policy and the answer of self.validate_policy
FinishIsolationPolicy(store, policy, app_label, verdict) ==
    IF ~Truthy(verdict)
    THEN StoreEffect(store, Raise("ValueError", 78, "Generated policy failed validation",
                                  <<app_label>>))
    ELSE StoreEffect(Append(store, policy), Return(policy))

\* create_isolation_policy(namespace, app_label, allowed_ingress, allowed_egress)
\* on a generator whose store is `store`
create_isolation_policy(store, namespace, app_label, allowed_ingress, allowed_egress) ==
    FinishIsolationPolicy(store,
                          BuildIsolationPolicy(namespace, app_label,
                                               allowed_ingress, allowed_egress),
                          app_label,
                          validate_policy(BuildIsolationPolicy(namespace, app_label,
                                                               allowed_ingress,
                                                               allowed_egress)))

\* line 88: ports = ports or [80, 8080, 443]
DefaultPorts == PyList(<<PyInt(80), PyInt(8080), PyInt(443)>>)
\* a variant that falls back to the defaults for None only
PortsOrDefaultNoneOnly(ports) == IF ports = PyNone THEN DefaultPorts ELSE ports

PortsOrDefault(ports) == IF Truthy(ports) THEN ports ELSE DefaultPorts

\* lines 90-94
MicroserviceIngress(allowed_services, ports) ==
    PyList(<<PyDict(
        [from |-> PyList([i \in 1..Len(allowed_services.v) |->
                      PyDict([podSelector |->
                          PyDict([matchLabels |->
                              PyDict([app |-> allowed_services.v[i]])])])]),
         ports |-> PyList([i \in 1..Len(PortsOrDefault(ports).v) |->
                      PyDict([protocol |-> PyStr("TCP"),
                              port |-> PortsOrDefault(ports).v[i]])])])>>)

\* lines 97-100
DnsEgress ==
    PyList(<<PyDict([to |-> PyList(<<>>),
                     ports |-> PyList(<<PyDict([protocol |-> PyStr("UDP"),
                                                port |-> PyInt(53)])>>)])>>)

\* create_microservice_policy(namespace, service_name, allowed_services, ports)
create_microservice_policy(store, namespace, service_name, allowed_services, ports) ==
    create_isolation_policy(store, namespace, service_name,
                            MicroserviceIngress(allowed_services, ports), DnsEgress)

----------------------------------------------------------------------------
(* YAML text: a stream is a sequence of documents, a document a tree of    *)
(* nodes. A scalar node is its text and whether it is written plain or     *)
(* quoted; a plain scalar gets its type back from its text when loaded.    *)

YamlScalar(text, plain) == [kind |-> "scalar", text |-> text, plain |-> plain]
YamlSequence(items) == [kind |-> "sequence", items |-> items]
YamlMapping(pairs) == [kind |-> "mapping", pairs |-> pairs]

\* the integers the documents of the model hold
PortNumbers == {53, 80, 443, 8080, 9090}

NullTexts == {"", "~", "null", "Null", "NULL"}
TrueTexts == {"yes", "Yes", "YES", "true", "True", "TRUE", "on", "On", "ON"}
FalseTexts == {"no", "No", "NO", "false", "False", "FALSE", "off", "Off", "OFF"}

\* the type the YAML 1.1 resolver gives a plain scalar
ImplicitTag(text) ==
    CASE text \in NullTexts -> "null"
      [] text \in TrueTexts \cup FalseTexts -> "bool"
      [] \E n \in PortNumbers : ToString(n) = text -> "int"
      [] OTHER -> "str"

\* a variant that writes every string plain
PlainStringAlways(text) == TRUE

\* a string is written plain only if it would be read back as a string
PlainString(text) == ImplicitTag(text) = "str"

\* yaml.dump of one value: the node that is written
RECURSIVE yaml_represent(_)
yaml_represent(x) ==
    CASE x.t = "NoneType" -> YamlScalar("null", TRUE)
      [] x.t = "bool" -> YamlScalar(IF x.v THEN "true" ELSE "false", TRUE)
      [] x.t = "int" -> YamlScalar(ToString(x.v), TRUE)
      [] x.t = "str" -> YamlScalar(x.v, PlainString(x.v))
      [] x.t = "list" ->
           YamlSequence([i \in 1..Len(x.v) |-> yaml_represent(x.v[i])])
      [] x.t = "dict" ->
           YamlMapping([k \in DOMAIN x.v |-> yaml_represent(x.v[k])])

\* yaml.safe_load of one node: the value that is built
RECURSIVE yaml_construct(_)
yaml_construct(node) ==
    CASE node.kind = "sequence" ->
           PyList([i \in 1..Len(node.items) |-> yaml_construct(node.items[i])])
      [] node.kind = "mapping" ->
           PyDict([k \in DOMAIN node.pairs |-> yaml_construct(node.pairs[k])])
      [] node.kind = "scalar" ->
           IF ~node.plain THEN PyStr(node.text)
           ELSE CASE ImplicitTag(node.text) = "null" -> PyNone
                  [] ImplicitTag(node.text) = "bool" ->
                       PyBool(node.text \in TrueTexts)
                  [] ImplicitTag(node.text) = "int" ->
                       PyInt(CHOOSE n \in PortNumbers : ToString(n) = node.text)
                  [] OTHER -> PyStr(node.text)

\* yaml.dump(config, f): one document
yaml_dump(document) == <<yaml_represent(document)>>

\* a variant that leaves only the last document in the stream
yaml_dump_all_last_only(documents) ==
    IF documents = <<>> THEN <<>>
    ELSE <<yaml_represent(documents[Len(documents)])>>

\* yaml.dump_all(documents, f): the stream holds one YAML document per element
yaml_dump_all(documents) ==
    [i \in 1..Len(documents) |-> yaml_represent(documents[i])]

\* yaml.safe_load_all(f): one value per document of the stream
yaml_safe_load_all(stream) ==
    [i \in 1..Len(stream) |-> yaml_construct(stream[i])]

----------------------------------------------------------------------------
(* Files. One path is modelled; what is stored under it is absent, a YAML  *)
(* stream, or text that is not YAML.                                       *)

Path == PyStr("policy.yaml")

FileOf(stream) == [exists |-> TRUE, stream |-> stream]

\* open(file_path, mode) failing; str() of the error, without the quotes
\* around the path
OpenError(exc, line) ==
    Raise(exc, line,
          IF exc = "FileNotFoundError" THEN "[Errno 2] No such file or directory: "
          ELSE "[Errno 13] Permission denied: ",
          <<Path>>)

\* open(file_path, 'r') at the given line
OpenForRead(f, access, line) ==
    IF ~f.exists THEN OpenError("FileNotFoundError", line)
    ELSE IF access # "ok" THEN OpenError(access, line)
    ELSE Return(f)

\* the parser reading the text of f
ParseStream(f, line) ==
    IF "stream" \in DOMAIN f THEN Return(f.stream)
    ELSE Raise("YAMLError", line, "while parsing a flow sequence", <<>>)

\* yaml.safe_load(f), line 57: None for a stream without documents, an error
\* for a stream with more than one
yaml_safe_load(f) ==
    LET parsed == ParseStream(f, 57)
    IN IF ~Returned(parsed) THEN parsed
       ELSE IF parsed.value = <<>> THEN Return(PyNone)
       ELSE IF Len(parsed.value) > 1
            THEN Raise("YAMLError", 57, "expected a single document in the stream", <<>>)
       ELSE Return(yaml_construct(parsed.value[1]))

\* the try block of load_config_from_file, lines 56-63
TryLoadConfig(f, access) ==
    LET opened == OpenForRead(f, access, 56)
        loaded == yaml_safe_load(f)
    IN IF ~Returned(opened) THEN opened
       ELSE IF ~Returned(loaded) THEN loaded
       ELSE IF loaded.value = PyNone
            THEN Raise("ConfigValidationError", 60, "Empty configuration file: ", <<Path>>)
       ELSE loaded

\* a variant with the catch-all handler only
WrapLoadErrorCatchAll(e) ==
    Raise("ConfigValidationError", 70, "Error loading ", <<Path, e>>)

\* the except clauses of load_config_from_file, lines 65-70, for an
\* exception e raised in the try block
WrapLoadError(e) ==
    CASE e.exc = "FileNotFoundError" ->
           Raise("ConfigValidationError", 66, "Configuration file not found: ", <<Path>>)
      [] e.exc = "YAMLError" ->
           Raise("ConfigValidationError", 68, "Invalid YAML in ", <<Path, e>>)
      [] OTHER ->
           Raise("ConfigValidationError", 70, "Error loading ", <<Path, e>>)

\* load_config_from_file(file_path), lines 55-70
load_config_from_file(f, access) ==
    IF Returned(TryLoadConfig(f, access)) THEN TryLoadConfig(f, access)
    ELSE WrapLoadError(TryLoadConfig(f, access))

\* line 87: the documents that are not None, in order
DropNone(docs) == SelectSeq(docs, LAMBDA c : c # PyNone)

\* the try block of load_multiple_configs, lines 83-90
TryLoadMultiple(f, access) ==
    LET opened == OpenForRead(f, access, 83)
        parsed == ParseStream(f, 84)
    IN IF ~Returned(opened) THEN opened
       ELSE IF ~Returned(parsed) THEN parsed
       ELSE Return(PyList(DropNone(yaml_safe_load_all(parsed.value))))

\* load_multiple_configs(file_path), lines 82-93
load_multiple_configs(f, access) ==
    IF Returned(TryLoadMultiple(f, access)) THEN TryLoadMultiple(f, access)
    ELSE Raise("ConfigValidationError", 93, "Error loading multiple configs: ",
               <<TryLoadMultiple(f, access)>>)

\* what a save leaves under the path, and its outcome
Written(f, result) == [file |-> f, result |-> result]

\* a variant that logs a failed save and returns
save_config_to_file_silent(cfg, f, access) ==
    IF access = "ok" THEN Written(FileOf(yaml_dump(cfg)), Return(PyNone))
    ELSE Written(f, Return(PyNone))

\* save_config_to_file(config, file_path), lines 227-237
save_config_to_file(cfg, f, access) ==
    IF access = "ok" THEN Written(FileOf(yaml_dump(cfg)), Return(PyNone))
    ELSE Written(f, Raise("ConfigValidationError", 237, "Error saving config: ",
                          <<OpenError(access, 228)>>))

\* save_multiple_configs(configs, file_path), lines 248-258
save_multiple_configs(cfgs, f, access) ==
    IF access = "ok" THEN Written(FileOf(yaml_dump_all(cfgs)), Return(PyNone))
    ELSE Written(f, Raise("ConfigValidationError", 258, "Error saving multiple configs: ",
                          <<OpenError(access, 249)>>))

\* str(e): the text of the f-string followed by what it interpolates
RECURSIVE MessageChars(_)
RECURSIVE ArgChars(_)
MessageChars(e) == Chars(e.text) \o ArgChars(e.args)

ArgChars(args) ==
    IF args = <<>> THEN <<>>
    ELSE (IF "kind" \in DOMAIN Head(args) THEN MessageChars(Head(args))
          ELSE Chars(Head(args).v))
         \o (IF Len(args) > 1 THEN Chars(": ") \o ArgChars(Tail(args)) ELSE <<>>)

\* a variant that lists every policy name once
get_policy_summary_unique_names(store) ==
    [total_policies |-> Len(store),
     policy_names |-> SetToSeq({store[i].v.metadata.v.name : i \in 1..Len(store)}),
     namespaces |-> {store[i].v.metadata.v.namespace : i \in 1..Len(store)},
     apps |-> {store[i].v.metadata.v.labels.v.app : i \in 1..Len(store)}]

\* get_policy_summary(), lines 174-180; list(set(...)) has no defined order
\* and is kept as a set
get_policy_summary(store) ==
    [total_policies |-> Len(store),
     policy_names |-> [i \in 1..Len(store) |-> store[i].v.metadata.v.name],
     namespaces |-> {store[i].v.metadata.v.namespace : i \in 1..Len(store)},
     apps |-> {IF "app" \in DOMAIN store[i].v.metadata.v.labels.v
               THEN store[i].v.metadata.v.labels.v.app
               ELSE PyStr("unknown") : i \in 1..Len(store)}]

----------------------------------------------------------------------------
(* Candidate documents handed to the validators                            *)

\* marks a key that a document does not have
Absent == [t |-> "absent"]

\* the dict holding the fields of rec that are not Absent
Fields(rec) ==
    PyDict([k \in {j \in DOMAIN rec : rec[j] # Absent} |-> rec[k]])

RECURSIVE SeqsUpTo(_, _)
SeqsUpTo(S, n) ==
    IF n = 0 THEN {<<>>}
    ELSE LET shorter == SeqsUpTo(S, n - 1)
         IN shorter \cup {Append(q, e) : q \in {r \in shorter : Len(r) = n - 1}, e \in S}

TypeValues == {PyStr("Ingress"), PyStr("Egress"), PyStr("Bogus"), PyStr("Other")}

PolicyTypesValues ==
    {Absent, PyNone, PyStr(""), PyStr("Ingress"), PyInt(1), EmptyDict,
     PyDict([Ingress |-> PyNone]), PyDict([Bogus |-> PyNone])}
    \cup {PyList(q) : q \in SeqsUpTo(TypeValues, MaxTypes)}

PodSelector(app) == PyDict([matchLabels |-> PyDict([app |-> PyStr(app)])])

ApiVersionValues == {Absent, PyStr("networking.k8s.io/v1"), PyStr("apps/v1")}

KindValues == {Absent, PyStr("NetworkPolicy"), PyStr("Deployment")}

MetadataValues ==
    {Absent, PyNone, PyStr(""), PyStr("name"), PyList(<<PyStr("name")>>),
     EmptyDict,
     PyDict([namespace |-> PyStr("test")]),
     PyDict([name |-> PyStr("")]),
     PyDict([name |-> PyNone]),
     PyDict([name |-> PyStr("test-policy"), namespace |-> PyStr("test")])}

SpecValues ==
    {Absent, PyNone, PyStr(""), PyStr("podSelector"),
     PyList(<<PyStr("podSelector")>>),
     PyList(<<PyStr("podSelector"), PyStr("policyTypes")>>)}
    \cup {Fields([podSelector |-> ps, policyTypes |-> pt]) :
            ps \in {Absent, PodSelector("test-app")}, pt \in PolicyTypesValues}

CandidateDocs ==
    {Fields([apiVersion |-> a, kind |-> k, metadata |-> m, spec |-> s]) :
        a \in ApiVersionValues, k \in KindValues,
        m \in MetadataValues, s \in SpecValues}

----------------------------------------------------------------------------
(* ConfigValidator of examples/step4_yaml_validation.py                    *)

\* lines 23-27
required_fields == <<"apiVersion", "kind", "metadata", "spec">>
valid_api_versions == <<PyStr("networking.k8s.io/v1"), PyStr("networking.k8s.io/v1beta1")>>
valid_kinds == <<PyStr("NetworkPolicy")>>
valid_policy_types == <<PyStr("Ingress"), PyStr("Egress")>>

\* config.get(key, default)
DictGet(cfg, key, default) == IF key \in DOMAIN cfg.v THEN cfg.v[key] ELSE default

\* lines 29-38
validate_basic_structure(cfg) ==
    LET missing == SelectSeq(required_fields, LAMBDA f : f \notin DOMAIN cfg.v)
    IN IF cfg.t # "dict"
       THEN Raise("ConfigValidationError", 32, "Configuration must be a dictionary", <<>>)
       ELSE IF missing # <<>>
       THEN Raise("ConfigValidationError", 36, "Missing required fields: ",
                  <<StrList(missing)>>)
       ELSE Return(PyBool(TRUE))

\* lines 40-47
validate_api_version(cfg) ==
    IF ~InList(DictGet(cfg, "apiVersion", PyNone), valid_api_versions)
    THEN Raise("ConfigValidationError", 44, "Invalid apiVersion",
               <<DictGet(cfg, "apiVersion", PyNone)>>)
    ELSE Return(PyBool(TRUE))

\* lines 49-54
validate_kind(cfg) ==
    IF ~InList(DictGet(cfg, "kind", PyNone), valid_kinds)
    THEN Raise("ConfigValidationError", 53, "Invalid kind",
               <<DictGet(cfg, "kind", PyNone)>>)
    ELSE Return(PyBool(TRUE))

\* str.isalnum() of one character, over the characters of the names used here
AlnumChars ==
    {"a", "b", "c", "d", "e", "f", "g", "h", "i", "j", "k", "l", "m",
     "n", "o", "p", "q", "r", "s", "t", "u", "v", "w", "x", "y", "z",
     "A", "B", "C", "D", "E", "F", "G", "H", "I", "J", "K", "L", "M",
     "N", "O", "P", "Q", "R", "S", "T", "U", "V", "W", "X", "Y", "Z",
     "0", "1", "2", "3", "4", "5", "6", "7", "8", "9"}

\* the characters str.strip() removes
WhitespaceChars == {" ", "\t", "\n"}

\* the characters of s.strip()
RECURSIVE strip(_)
strip(cs) ==
    IF cs = <<>> THEN <<>>
    ELSE IF Head(cs) \in WhitespaceChars THEN strip(Tail(cs))
    ELSE IF cs[Len(cs)] \in WhitespaceChars THEN strip(SubSeq(cs, 1, Len(cs) - 1))
    ELSE cs

\* a variant that also lets '_' through
NameCharsAllowedWithUnderscore(name) ==
    \A i \in 1..Len(Chars(name)) :
        Chars(name)[i] \in AlnumChars \cup {"-", ".", "_"}

\* line 71: all(c.isalnum() or c in '-.' for c in name)
NameCharsAllowed(name) ==
    \A i \in 1..Len(Chars(name)) :
        Chars(name)[i] \in AlnumChars \/ Chars(name)[i] \in {"-", "."}

\* line 74: name.startswith('-') or name.endswith('-')
DashAtEnds(name) ==
    /\ Chars(name) # <<>>
    /\ Chars(name)[1] = "-" \/ Chars(name)[Len(Chars(name))] = "-"

\* lines 56-77
validate_metadata(cfg) ==
    LET metadata == DictGet(cfg, "metadata", EmptyDict)
    IN IF metadata.t # "dict"
       THEN Raise("ConfigValidationError", 61, "metadata must be a dictionary", <<>>)
       ELSE IF "name" \notin DOMAIN metadata.v
       THEN Raise("ConfigValidationError", 64, "metadata.name is required", <<>>)
       ELSE IF metadata.v.name.t # "str" \/ strip(Chars(metadata.v.name.v)) = <<>>
       THEN Raise("ConfigValidationError", 68,
                  "metadata.name must be a non-empty string", <<>>)
       ELSE IF ~NameCharsAllowed(metadata.v.name.v)
       THEN Raise("ConfigValidationError", 72,
                  "metadata.name contains invalid characters", <<>>)
       ELSE IF DashAtEnds(metadata.v.name.v)
       THEN Raise("ConfigValidationError", 75,
                  "metadata.name cannot start or end with '-'", <<>>)
       ELSE Return(PyBool(TRUE))

\* a variant that does not ask for a podSelector
PodSelectorErrorNever(spec) == Pass

\* lines 86-92: the podSelector checks of validate_spec
PodSelectorError(spec) ==
    IF "podSelector" \notin DOMAIN spec.v
    THEN Raise("ConfigValidationError", 88, "spec.podSelector is required", <<>>)
    ELSE IF spec.v.podSelector.t # "dict"
    THEN Raise("ConfigValidationError", 92, "spec.podSelector must be a dictionary", <<>>)
    ELSE Pass

\* line 100: the elements of policyTypes outside valid_policy_types, in order
invalid_types(policy_types) ==
    SelectSeq(policy_types.v, LAMBDA pt : ~InList(pt, valid_policy_types))

\* lines 79-104
validate_spec(cfg) ==
    LET spec == DictGet(cfg, "spec", EmptyDict)
    IN IF spec.t # "dict"
       THEN Raise("ConfigValidationError", 84, "spec must be a dictionary", <<>>)
       ELSE IF ~Passed(PodSelectorError(spec)) THEN PodSelectorError(spec)
       ELSE IF "policyTypes" \notin DOMAIN spec.v THEN Return(PyBool(TRUE))
       ELSE IF spec.v.policyTypes.t # "list"
       THEN Raise("ConfigValidationError", 98, "spec.policyTypes must be a list", <<>>)
       ELSE IF invalid_types(spec.v.policyTypes) # <<>>
       THEN Raise("ConfigValidationError", 102, "Invalid policyTypes: ",
                  <<PyList(invalid_types(spec.v.policyTypes))>>)
       ELSE Return(PyBool(TRUE))

\* documents handed to the ConfigValidator
StrictNames ==
    {"", "   ", "test_name", "test!name", "-testname", "testname-", "Test Name",
     "123-name", "test-policy", "web.app"}

StrictMetadataValues ==
    {Absent, PyNone, PyStr("name"), EmptyDict,
     PyDict([namespace |-> PyStr("production")]),
     PyDict([name |-> PyNone]), PyDict([name |-> PyInt(1)])}
    \cup {PyDict([name |-> PyStr(n), namespace |-> PyStr("production")]) :
            n \in StrictNames}

StrictSpecValues ==
    {Absent, PyNone, PyStr("podSelector"), EmptyDict,
     PyDict([podSelector |-> PyStr("app")]),
     PyDict([podSelector |-> PodSelector("web")]),
     PyDict([podSelector |-> PodSelector("web"), policyTypes |-> PyNone]),
     PyDict([podSelector |-> PodSelector("web"), policyTypes |-> PyStr("Ingress")]),
     PyDict([podSelector |-> PodSelector("web"), policyTypes |-> PyList(<<>>)]),
     PyDict([podSelector |-> PodSelector("web"),
             policyTypes |-> PyList(<<PyStr("Ingress")>>)]),
     PyDict([podSelector |-> PodSelector("web"),
             policyTypes |-> PyList(<<PyStr("Ingress"), PyStr("Bogus")>>)])}

StrictApiVersionValues == ApiVersionValues \cup {PyStr("networking.k8s.io/v1beta1")}

StrictDocs ==
    {Fields([apiVersion |-> a, kind |-> k, metadata |-> m, spec |-> s]) :
        a \in StrictApiVersionValues, k \in KindValues,
        m \in StrictMetadataValues, s \in StrictSpecValues}

----------------------------------------------------------------------------
(* Arguments and documents of the manager's callers                        *)

PolicyNames == {PyStr("web-policy"), PyStr("")}
Namespaces == {PyStr("production"), PyStr("staging")}
AppLabels == {PyStr("web-app"), PyStr("api-service")}
\* the application the generator's isolation policies are made for (main())
IsolatedApps == {PyStr("web-app")}

FromPodSelector(app) == PyDict([podSelector |-> PyDict([matchLabels |-> PyDict([app |-> PyStr(app)])])])

SelectorLists ==
    {PyList(<<FromPodSelector("frontend")>>),
     PyList(<<FromPodSelector("frontend"), FromPodSelector("existing")>>)}

TcpPort(n) == PyDict([protocol |-> PyStr("TCP"), port |-> PyInt(n)])

PortArgs == {Omitted, PyList(<<>>), PyList(<<TcpPort(8080)>>)}

\* rule lists handed to create_isolation_policy (tests/test_network_automation.py)
FrontendRule ==
    PyDict([from |-> PyList(<<FromPodSelector("frontend")>>),
            ports |-> PyList(<<TcpPort(8080)>>)])

IngressArgs == {Omitted, PyList(<<>>), PyList(<<FrontendRule>>)}
EgressArgs == {Omitted, DnsEgress}

ServiceNamespaces == {PyStr("production")}
ServiceNames == {PyStr("payment-service")}
ServiceLists == {PyList(<<PyStr("order-service"), PyStr("user-service")>>)}

PortListArgs == {Omitted, PyList(<<>>), PyList(<<PyInt(8080), PyInt(9090)>>)}

\* documents validate_policy is given besides the stored ones
OutsidePolicies == {PyDict([kind |-> PyStr("Service")])}

\* the valid_policy fixture of tests/test_config_manager.py, with spec replaced
Policy(spec) ==
    PyDict([apiVersion |-> PyStr("networking.k8s.io/v1"),
            kind |-> PyStr("NetworkPolicy"),
            metadata |-> PyDict([name |-> PyStr("test-policy"),
                                 namespace |-> PyStr("test")]),
            spec |-> spec])

ExistingRule == PyDict([from |-> PyList(<<FromPodSelector("existing")>>)])

\* a policy that allows DNS egress and has one ingress rule
EgressDoc ==
    Policy(PyDict([podSelector |-> PodSelector("test-app"),
                   policyTypes |-> PyList(<<PyStr("Egress")>>),
                   ingress |-> PyList(<<ExistingRule>>),
                   egress |-> DnsEgress]))

\* documents a caller holds without having generated them
SuppliedDocs ==
    {Policy(Fields([podSelector |-> PodSelector("test-app"), policyTypes |-> pt,
                    ingress |-> ing])) :
        pt \in {Absent, PyNone, PyStr("Egress"),
                PyList(<<PyStr("Ingress")>>), PyList(<<PyStr("Egress")>>),
                PyList(<<PyStr("Ingress"), PyStr("Ingress")>>)},
        ing \in {Absent, PyNone, PyList(<<ExistingRule>>)}}
    \cup {Policy(PyNone), EmptyDict, EgressDoc}

\* the documents that are saved and loaded (tests/test_config_manager.py,
\* TestConfigManagerIntegration): generated ones, one of them with an empty
\* name, one with an ingress rule and ports, and one without the optional
\* policyTypes whose ingress is null
GeneratedDoc ==
    generate_basic_policy(PyStr("web-policy"), PyStr("production"), PyStr("web-app"))

UnnamedDoc ==
    generate_basic_policy(PyStr(""), PyStr("production"), PyStr("web-app"))

RuledDoc ==
    add_ingress_rule(GeneratedDoc, PyList(<<FromPodSelector("frontend")>>),
                     PyList(<<TcpPort(8080)>>)).doc

BareDoc ==
    Policy(PyDict([podSelector |-> PodSelector("test-app"), ingress |-> PyNone]))

PersistedDocs == {GeneratedDoc, UnnamedDoc, RuledDoc, BareDoc}

\* the lists handed to save_multiple_configs
DocLists == SeqsUpTo({UnnamedDoc, RuledDoc}, MaxDocs)

\* an empty document of a stream ('---' followed by nothing)
NullDocument == YamlScalar("", TRUE)

\* text that is not YAML ('invalid: yaml: content: [unclosed')
MalformedFile == [exists |-> TRUE, text |-> "invalid: yaml: content: [unclosed"]

\* what is under the path before the first call: nothing, a zero-byte file,
\* broken text, a lone empty document, documents between empty ones
InitialFiles ==
    {[exists |-> FALSE], FileOf(<<>>), MalformedFile, FileOf(<<NullDocument>>),
     FileOf(<<NullDocument, yaml_represent(GeneratedDoc),
              NullDocument, yaml_represent(BareDoc)>>)}

\* how the file system answers an open()
ReadAccess == {"ok", "PermissionError"}
WriteAccess == {"ok", "PermissionError", "FileNotFoundError"}

HasIngressList(d) ==
    /\ d.t = "dict" /\ "spec" \in DOMAIN d.v
    /\ d.v.spec.t = "dict" /\ "ingress" \in DOMAIN d.v.spec.v
    /\ d.v.spec.v.ingress.t = "list"

----------------------------------------------------------------------------
(* State                                                                   *)

NoFile == [exists |-> FALSE]
NoCall == [op |-> "none"]

\* a variant that fills in a missing policyTypes before it validates
ValidateNetworkPolicyNormalizing ==
    LET filled == IF /\ Returned(validate_network_policy(config))
                     /\ config.v.spec.t = "dict"
                     /\ "policyTypes" \notin DOMAIN config.v.spec.v
                  THEN DictSet(config, "spec",
                               DictSet(config.v.spec, "policyTypes", PyList(<<>>)))
                  ELSE config
    IN /\ config' = filled
       /\ last' = [op |-> "validate_network_policy", arg |-> config,
                   result |-> validate_network_policy(filled)]
       /\ UNCHANGED <<configs, policies, file, workflow>>

\* a caller validates the document it holds
ValidateNetworkPolicy ==
    /\ last' = [op |-> "validate_network_policy", arg |-> config,
                result |-> validate_network_policy(config)]
    /\ UNCHANGED <<config, configs, policies, file, workflow>>

\* generate_basic_policy(name, namespace, app_label); the caller keeps the result
GenerateBasicPolicy(name, namespace, app_label) ==
    /\ config' = generate_basic_policy(name, namespace, app_label)
    /\ last' = [op |-> "generate_basic_policy", name |-> name,
                namespace |-> namespace, app_label |-> app_label,
                result |-> Return(config')]
    /\ UNCHANGED <<configs, policies, file, workflow>>

\* the number of ingress rules a document holds
IngressCount(d) ==
    IF HasIngressList(d) THEN Len(d.v.spec.v.ingress.v) ELSE 0

\* add_ingress_rule(config, from_selectors[, ports]) on the caller's document,
\* which the call changes in place even when it raises
AddIngressRule(from_selectors, ports) ==
    /\ IngressCount(config) < MaxRules
    /\ config' = add_ingress_rule(config, from_selectors, ports).doc
    /\ last' = [op |-> "add_ingress_rule", arg |-> config,
                from_selectors |-> from_selectors, ports |-> ports,
                result |-> add_ingress_rule(config, from_selectors, ports).result]
    /\ UNCHANGED <<configs, policies, file, workflow>>

\* the manager: documents are supplied or generated, extended and validated
Init ==
    /\ config \in SuppliedDocs
    /\ configs = <<>>
    /\ policies = <<>>
    /\ file = NoFile
    /\ processed_policies = <<>>
    /\ validation_errors = <<>>
    /\ operation_log = <<>>
    /\ last = NoCall

Next ==
    \/ \E name \in PolicyNames, namespace \in Namespaces, app_label \in AppLabels :
           GenerateBasicPolicy(name, namespace, app_label)
    \/ \E from_selectors \in SelectorLists, ports \in PortArgs :
           AddIngressRule(from_selectors, ports)
    \/ ValidateNetworkPolicy

Spec == Init /\ [][Next]_vars

\* a variant that hands the document back without keeping it
CreateIsolationPolicyUnstored(namespace, app_label, allowed_ingress, allowed_egress) ==
    LET call == create_isolation_policy(policies, namespace, app_label,
                                        ArgOrNone(allowed_ingress),
                                        ArgOrNone(allowed_egress))
    IN /\ Len(policies) < MaxPolicies
       /\ last' = [op |-> "create_isolation_policy", namespace |-> namespace,
                   app_label |-> app_label, allowed_ingress |-> allowed_ingress,
                   allowed_egress |-> allowed_egress, result |-> call.result]
       /\ UNCHANGED <<config, configs, policies, file, workflow>>

\* create_isolation_policy(namespace, app_label[, allowed_ingress][, allowed_egress])
CreateIsolationPolicy(namespace, app_label, allowed_ingress, allowed_egress) ==
    LET call == create_isolation_policy(policies, namespace, app_label,
                                        ArgOrNone(allowed_ingress),
                                        ArgOrNone(allowed_egress))
    IN /\ Len(policies) < MaxPolicies
       /\ policies' = call.policies
       /\ last' = [op |-> "create_isolation_policy", namespace |-> namespace,
                   app_label |-> app_label, allowed_ingress |-> allowed_ingress,
                   allowed_egress |-> allowed_egress, result |-> call.result]
       /\ UNCHANGED <<config, configs, file, workflow>>

\* create_microservice_policy(namespace, service_name, allowed_services[, ports])
CreateMicroservicePolicy(namespace, service_name, allowed_services, ports) ==
    LET call == create_microservice_policy(policies, namespace, service_name,
                                           allowed_services, ArgOrNone(ports))
    IN /\ Len(policies) < MaxPolicies
       /\ policies' = call.policies
       /\ last' = [op |-> "create_microservice_policy", namespace |-> namespace,
                   service_name |-> service_name,
                   allowed_services |-> allowed_services, ports |-> ports,
                   result |-> call.result]
       /\ UNCHANGED <<config, configs, file, workflow>>

\* validate_policy(policy)
ValidatePolicy(policy) ==
    /\ last' = [op |-> "validate_policy", arg |-> policy,
                result |-> Return(validate_policy(policy))]
    /\ UNCHANGED <<config, configs, policies, file, workflow>>

\* a variant that empties the store once it is exported
ExportPoliciesDraining(writable) ==
    /\ last' = [op |-> "export_policies", writable |-> writable,
                result |-> IF policies # <<>> /\ ~writable
                           THEN Raise("OSError", 162, "", <<>>)
                           ELSE Return(PyNone)]
    /\ file' = IF policies # <<>> /\ writable
               THEN [exists |-> TRUE, stream |-> yaml_dump_all(policies)]
               ELSE file
    /\ policies' = IF writable THEN <<>> ELSE policies
    /\ UNCHANGED <<config, configs, workflow>>

\* export_policies(output_file), lines 153-170; the file system decides
\* whether output_file can be opened for writing
ExportPolicies(writable) ==
    /\ last' = [op |-> "export_policies", writable |-> writable,
                result |-> IF policies # <<>> /\ ~writable
                           THEN Raise("OSError", 162, "", <<>>)
                           ELSE Return(PyNone)]
    /\ file' = IF policies # <<>> /\ writable
               THEN [exists |-> TRUE, stream |-> yaml_dump_all(policies)]
               ELSE file
    /\ UNCHANGED <<config, configs, policies, workflow>>

\* get_policy_summary()
GetPolicySummary ==
    /\ last' = [op |-> "get_policy_summary",
                result |-> Return(get_policy_summary(policies))]
    /\ UNCHANGED <<config, configs, policies, file, workflow>>

\* one generator instance and the calls made on it
GeneratorInit ==
    /\ config = EmptyDict
    /\ configs = <<>>
    /\ policies = <<>>
    /\ file = NoFile
    /\ processed_policies = <<>>
    /\ validation_errors = <<>>
    /\ operation_log = <<>>
    /\ last = NoCall

GeneratorNext ==
    \/ \E namespace \in Namespaces, app_label \in IsolatedApps,
          allowed_ingress \in IngressArgs, allowed_egress \in EgressArgs :
           CreateIsolationPolicy(namespace, app_label, allowed_ingress, allowed_egress)
    \/ \E namespace \in ServiceNamespaces, service_name \in ServiceNames,
          allowed_services \in ServiceLists, ports \in PortListArgs :
           CreateMicroservicePolicy(namespace, service_name, allowed_services, ports)
    \/ \E policy \in {policies[i] : i \in 1..Len(policies)} \cup OutsidePolicies :
           ValidatePolicy(policy)
    \/ \E writable \in BOOLEAN : ExportPolicies(writable)
    \/ GetPolicySummary

GeneratorSpec == GeneratorInit /\ [][GeneratorNext]_vars

\* the validator applied to every candidate document
ValidatorInit ==
    /\ config \in CandidateDocs
    /\ configs = <<>>
    /\ policies = <<>>
    /\ file = NoFile
    /\ processed_policies = <<>>
    /\ validation_errors = <<>>
    /\ operation_log = <<>>
    /\ last = NoCall

ValidatorNext == ValidateNetworkPolicy

ValidatorSpec == ValidatorInit /\ [][ValidatorNext]_vars

\* create_isolation_policy on a generator of a subclass whose validate_policy
\* answers `verdict` for the policy that is built
CreateIsolationPolicyOverridden(namespace, app_label, allowed_ingress, verdict) ==
    LET policy == BuildIsolationPolicy(namespace, app_label,
                                       ArgOrNone(allowed_ingress), PyNone)
        call == FinishIsolationPolicy(policies, policy, app_label, verdict)
    IN /\ Len(policies) < MaxPolicies
       /\ policies' = call.policies
       /\ last' = [op |-> "create_isolation_policy", namespace |-> namespace,
                   app_label |-> app_label, allowed_ingress |-> allowed_ingress,
                   allowed_egress |-> Omitted, built |-> policy,
                   verdict |-> verdict, result |-> call.result]
       /\ UNCHANGED <<config, configs, file, workflow>>

\* the answers of an overriding validate_policy
Verdicts == {PyBool(TRUE), PyBool(FALSE)}

OverriddenInit ==
    /\ config = EmptyDict
    /\ configs = <<>>
    /\ policies = <<>>
    /\ file = NoFile
    /\ processed_policies = <<>>
    /\ validation_errors = <<>>
    /\ operation_log = <<>>
    /\ last = NoCall

OverriddenNext ==
    \/ \E namespace \in Namespaces, app_label \in AppLabels,
          allowed_ingress \in IngressArgs, verdict \in Verdicts :
           CreateIsolationPolicyOverridden(namespace, app_label, allowed_ingress, verdict)
    \/ GetPolicySummary

OverriddenSpec == OverriddenInit /\ [][OverriddenNext]_vars

\* one manager and one generator, and the calls that produce documents
ProducerInit ==
    /\ config = EmptyDict
    /\ configs = <<>>
    /\ policies = <<>>
    /\ file = NoFile
    /\ processed_policies = <<>>
    /\ validation_errors = <<>>
    /\ operation_log = <<>>
    /\ last = NoCall

ProducerNext ==
    \/ \E name \in PolicyNames, namespace \in Namespaces, app_label \in AppLabels :
           GenerateBasicPolicy(name, namespace, app_label)
    \/ \E namespace \in Namespaces, app_label \in AppLabels,
          allowed_ingress \in IngressArgs :
           CreateIsolationPolicy(namespace, app_label, allowed_ingress, Omitted)
    \/ \E namespace \in ServiceNamespaces, service_name \in ServiceNames,
          allowed_services \in ServiceLists, ports \in PortListArgs :
           CreateMicroservicePolicy(namespace, service_name, allowed_services, ports)

ProducerSpec == ProducerInit /\ [][ProducerNext]_vars

\* save_config_to_file(config, file_path) with the caller's document; a
\* missing directory can only be the answer while the file does not exist
SaveConfigToFile(access) ==
    /\ access = "FileNotFoundError" => ~file.exists
    /\ file' = save_config_to_file(config, file, access).file
    /\ last' = [op |-> "save_config_to_file", arg |-> config, access |-> access,
                result |-> save_config_to_file(config, file, access).result]
    /\ UNCHANGED <<config, configs, policies, workflow>>

\* load_config_from_file(file_path); the caller keeps what is returned
LoadConfigFromFile(access) ==
    /\ config' = IF Returned(load_config_from_file(file, access))
                 THEN load_config_from_file(file, access).value
                 ELSE config
    /\ last' = [op |-> "load_config_from_file", access |-> access,
                result |-> load_config_from_file(file, access)]
    /\ UNCHANGED <<configs, policies, file, workflow>>

\* save_multiple_configs(configs, file_path)
SaveMultipleConfigs(cfgs, access) ==
    /\ access = "FileNotFoundError" => ~file.exists
    /\ file' = save_multiple_configs(cfgs, file, access).file
    /\ last' = [op |-> "save_multiple_configs", arg |-> cfgs, access |-> access,
                result |-> save_multiple_configs(cfgs, file, access).result]
    /\ UNCHANGED <<config, configs, policies, workflow>>

\* load_multiple_configs(file_path)
LoadMultipleConfigs(access) ==
    /\ last' = [op |-> "load_multiple_configs", access |-> access,
                result |-> load_multiple_configs(file, access)]
    /\ UNCHANGED <<config, configs, policies, file, workflow>>

\* a manager and a generator saving to and loading from one path
PersistenceInit ==
    /\ config \in PersistedDocs
    /\ configs = <<>>
    /\ policies = <<>>
    /\ file \in InitialFiles
    /\ processed_policies = <<>>
    /\ validation_errors = <<>>
    /\ operation_log = <<>>
    /\ last = NoCall

PersistenceNext ==
    \/ \E access \in WriteAccess : SaveConfigToFile(access)
    \/ \E access \in ReadAccess : LoadConfigFromFile(access)
    \/ \E cfgs \in DocLists, access \in WriteAccess : SaveMultipleConfigs(cfgs, access)
    \/ \E access \in ReadAccess : LoadMultipleConfigs(access)
    \/ \E namespace \in ServiceNamespaces, app_label \in ServiceNames :
           CreateIsolationPolicy(namespace, app_label, Omitted, Omitted)
    \/ \E writable \in BOOLEAN : ExportPolicies(writable)

PersistenceSpec == PersistenceInit /\ [][PersistenceNext]_vars

----------------------------------------------------------------------------
(* Properties of validate_network_policy                                   *)

MinOf(S) == CHOOSE x \in S : \A y \in S : x <= y

HasKey(d, k) == d.t = "dict" /\ k \in DOMAIN d.v

IsPolicyType(e) == e = PyStr("Ingress") \/ e = PyStr("Egress")

Validated == last.op = "validate_network_policy"
Accepted == Validated /\ Returned(last.result)

\* what every accepted document has in common with the claim of C1
AcceptedEnvelope(d) ==
    /\ \A k \in {"apiVersion", "kind", "metadata", "spec"} : HasKey(d, k)
    /\ d.v.apiVersion = PyStr("networking.k8s.io/v1")
    /\ d.v.kind = PyStr("NetworkPolicy")

\* C1 as stated: an accepted document has the four top-level keys, the two
\* literals, a metadata.name that is a non-empty string, a spec.podSelector
\* key, and only 'Ingress'/'Egress' in spec.policyTypes when that is present.
C1_AcceptedHasNonEmptyName ==
    Accepted =>
        LET d == last.arg
        IN /\ AcceptedEnvelope(d)
           /\ HasKey(d.v.metadata, "name")
           /\ d.v.metadata.v.name.t = "str"
           /\ d.v.metadata.v.name.v # ""
           /\ HasKey(d.v.spec, "podSelector")
           /\ HasKey(d.v.spec, "policyTypes") =>
                  /\ Iterable(d.v.spec.v.policyTypes)
                  /\ \A i \in 1..Len(Iter(d.v.spec.v.policyTypes)) :
                         IsPolicyType(Iter(d.v.spec.v.policyTypes)[i])

\* C1 amended: an accepted document has the four top-level keys and the two
\* literals; metadata is a mapping with a name key, whatever its value;
\* 'podSelector' in spec holds (a key when spec is a mapping); and when spec
\* is a mapping with policyTypes, every element of it is 'Ingress' or 'Egress'.
C1_AcceptedHasNameKey ==
    Accepted =>
        LET d == last.arg
        IN /\ AcceptedEnvelope(d)
           /\ HasKey(d.v.metadata, "name")
           /\ CanContain(d.v.spec)
           /\ Contains(d.v.spec, "podSelector")
           /\ HasKey(d.v.spec, "policyTypes") =>
                  /\ Iterable(d.v.spec.v.policyTypes)
                  /\ \A i \in 1..Len(Iter(d.v.spec.v.policyTypes)) :
                         IsPolicyType(Iter(d.v.spec.v.policyTypes)[i])

\* a document with an empty name and two policy types is accepted
C1_Witness ==
    /\ Accepted
    /\ last.arg.v.metadata = PyDict([name |-> PyStr("")])
    /\ HasKey(last.arg.v.spec, "policyTypes")
    /\ last.arg.v.spec.v.policyTypes = PyList(<<PyStr("Ingress"), PyStr("Egress")>>)

\* the checks that a document fails when each is run on its own
ViolatedChecks(d) == {i \in 1..Len(CheckOrder) : ~Passed(Check(i, d))}

\* C2: when a document violates more than one check, the call ends with the
\* error of the lowest-numbered violated check (1 missing keys, 2 apiVersion,
\* 3 kind, 4 metadata.name, 5 spec.podSelector, 6 policyTypes), message and all.
C2_EarliestViolatedCheckWins ==
    Validated /\ Cardinality(ViolatedChecks(last.arg)) > 1 =>
        /\ last.result = Check(MinOf(ViolatedChecks(last.arg)), last.arg)
        /\ last.result.check = MinOf(ViolatedChecks(last.arg))

\* a document with the wrong apiVersion, the wrong kind, no name, no
\* podSelector and a bad policy type has been validated
C2_Witness ==
    /\ Validated
    /\ ViolatedChecks(last.arg) = {2, 3, 4, 5, 6}
    /\ last.result.text = "Invalid apiVersion: "

\* the required top-level keys a document lacks
MissingKeys(d) ==
    {k \in {"apiVersion", "kind", "metadata", "spec"} : ~HasKey(d, k)}

\* C3: a document lacking a non-empty set M of required top-level keys is
\* rejected with ConfigValidationError 'Missing required fields: [...]' whose
\* list names every key of M; for {} it names all four.
C3_MissingFieldsAllNamed ==
    Validated /\ MissingKeys(last.arg) # {} =>
        /\ Raised(last.result, "ConfigValidationError")
        /\ last.result.text = "Missing required fields: "
        /\ \A k \in MissingKeys(last.arg) : InList(PyStr(k), last.result.args[1].v)
        /\ Len(last.result.args[1].v) = Cardinality(MissingKeys(last.arg))

\* validate({}) has been called
C3_Witness ==
    /\ Validated
    /\ last.arg = EmptyDict
    /\ Len(last.result.args[1].v) = 4

\* C4: the validator either returns True or raises ConfigValidationError.
C4_OnlyConfigValidationError ==
    Validated =>
        \/ Returned(last.result)
        \/ Raised(last.result, "ConfigValidationError")

\* the documents that pass every check before the policyTypes check
OtherwiseValid(d) ==
    /\ AcceptedEnvelope(d)
    /\ HasKey(d.v.metadata, "name")
    /\ HasKey(d.v.spec, "podSelector")

\* the positions of a policyTypes list that hold an unknown value
OffendingPositions(pt) == {i \in 1..Len(pt.v) : ~IsPolicyType(pt.v[i])}

HasOffendingTypes(d) ==
    /\ OtherwiseValid(d)
    /\ HasKey(d.v.spec, "policyTypes")
    /\ d.v.spec.v.policyTypes.t = "list"
    /\ OffendingPositions(d.v.spec.v.policyTypes) # {}

\* C5 as stated: the error message reports every offending value of policyTypes.
C5_EveryOffendingTypeReported ==
    Validated /\ HasOffendingTypes(last.arg) =>
        /\ Raised(last.result, "ConfigValidationError")
        /\ \A i \in OffendingPositions(last.arg.v.spec.v.policyTypes) :
               InList(last.arg.v.spec.v.policyTypes.v[i], last.result.args)

\* C5 amended: the error is ConfigValidationError 'Invalid policyType: <v>'
\* where v is the first offending value of policyTypes, and only that one.
C5_FirstOffendingTypeReported ==
    Validated /\ HasOffendingTypes(last.arg) =>
        LET pt == last.arg.v.spec.v.policyTypes
        IN /\ Raised(last.result, "ConfigValidationError")
           /\ last.result.text = "Invalid policyType: "
           /\ last.result.args = <<pt.v[MinOf(OffendingPositions(pt))]>>

\* ['Bogus', 'Other'] has been validated
C5_Witness ==
    /\ Validated
    /\ HasOffendingTypes(last.arg)
    /\ last.arg.v.spec.v.policyTypes = PyList(<<PyStr("Bogus"), PyStr("Other")>>)

----------------------------------------------------------------------------
(* Properties of generate_basic_policy and add_ingress_rule                *)

Generated == last.op = "generate_basic_policy"

\* C6: generate_basic_policy(name, namespace, app_label) returns a document
\* with that name, namespace and app label, policyTypes ['Ingress', 'Egress'],
\* no ingress and no egress key, and validate_network_policy accepts it.
C6_GeneratedPolicyIsValid ==
    Generated =>
        LET d == last.result.value
        IN /\ Returned(last.result)
           /\ d.v.metadata.v.name = last.name
           /\ d.v.metadata.v.namespace = last.namespace
           /\ d.v.spec.v.podSelector.v.matchLabels.v.app = last.app_label
           /\ d.v.spec.v.policyTypes = PyList(<<PyStr("Ingress"), PyStr("Egress")>>)
           /\ "ingress" \notin DOMAIN d.v.spec.v
           /\ "egress" \notin DOMAIN d.v.spec.v
           /\ validate_network_policy(d) = Return(PyBool(TRUE))

\* generate_basic_policy('web-policy', 'production', 'web-app') has returned
C6_Witness ==
    /\ Generated
    /\ last.name = PyStr("web-policy")
    /\ last.namespace = PyStr("production")
    /\ last.app_label = PyStr("web-app")
    /\ config = last.result.value

RuleAdded == last.op = "add_ingress_rule"

\* 'Ingress' in d['spec']['policyTypes'] evaluates to True
IngressTypePresent(d) ==
    /\ HasKey(d, "spec")
    /\ HasKey(d.v.spec, "policyTypes")
    /\ CanContain(d.v.spec.v.policyTypes)
    /\ Contains(d.v.spec.v.policyTypes, "Ingress")

\* C7: after add_ingress_rule(d, selectors, ports) on a document the
\* validator accepts, 'Ingress' is in d.spec.policyTypes, d.spec.ingress is
\* one longer than before (0 when the key was absent), its last entry has
\* from == selectors, and that entry has a ports key iff ports was supplied,
\* in which case it equals ports.
C7_RuleAddedAndTyped ==
    RuleAdded /\ Returned(validate_network_policy(last.arg)) =>
        /\ IngressTypePresent(config)
        /\ HasIngressList(config)
        /\ IngressCount(config) = IngressCount(last.arg) + 1
        /\ LET rule == config.v.spec.v.ingress.v[IngressCount(config)]
           IN /\ rule.v.from = last.from_selectors
              /\ "ports" \in DOMAIN rule.v <=> last.ports # Omitted
              /\ last.ports # Omitted => rule.v.ports = last.ports

----------------------------------------------------------------------------
(* Properties of NetworkPolicyGenerator                                    *)

IsolationCreated == last.op = "create_isolation_policy"
MicroserviceCreated == last.op = "create_microservice_policy"

IsolationName(app_label) == PyStr(app_label.v \o "-isolation-policy")

BothTypes == PyList(<<PyStr("Ingress"), PyStr("Egress")>>)

\* C8: create_isolation_policy returns a document named
\* '<app_label>-isolation-policy' whose policyTypes are ['Ingress'] when only
\* ingress rules are supplied, ['Egress'] when only egress rules are supplied
\* and ['Ingress', 'Egress'] when both or neither are; the ingress (egress)
\* key is present iff ingress (egress) rules were supplied.
C8_IsolationPolicyTypes ==
    IsolationCreated =>
        LET d == last.result.value
            ingress == last.allowed_ingress # Omitted
            egress == last.allowed_egress # Omitted
        IN /\ Returned(last.result)
           /\ d.v.metadata.v.name = IsolationName(last.app_label)
           /\ d.v.spec.v.policyTypes =
                  IF ingress /\ ~egress THEN PyList(<<PyStr("Ingress")>>)
                  ELSE IF egress /\ ~ingress THEN PyList(<<PyStr("Egress")>>)
                  ELSE BothTypes
           /\ "ingress" \in DOMAIN d.v.spec.v <=> ingress
           /\ "egress" \in DOMAIN d.v.spec.v <=> egress
           /\ ingress => d.v.spec.v.ingress = last.allowed_ingress
           /\ egress => d.v.spec.v.egress = last.allowed_egress

\* a default-deny policy (no rule list supplied) has been created
C8_Witness ==
    /\ IsolationCreated
    /\ last.allowed_ingress = Omitted
    /\ last.allowed_egress = Omitted
    /\ last.result.value.v.spec.v.policyTypes = BothTypes
    /\ policies[Len(policies)] = last.result.value

\* the microservice policy for the given service whose ingress rule opens
\* the TCP ports `expected` (a sequence of Python ints)
IsMicroservicePolicy(d, service_name, allowed_services, expected) ==
    /\ d.v.metadata.v.name = IsolationName(service_name)
    /\ d.v.spec.v.policyTypes = BothTypes
    /\ Len(d.v.spec.v.ingress.v) = 1
    /\ LET rule == d.v.spec.v.ingress.v[1]
       IN /\ Len(rule.v.from.v) = Len(allowed_services.v)
          /\ \A i \in 1..Len(allowed_services.v) :
                 rule.v.from.v[i] =
                     PyDict([podSelector |-> PyDict([matchLabels |->
                         PyDict([app |-> allowed_services.v[i]])])])
          /\ Len(rule.v.ports.v) = Len(expected)
          /\ \A i \in 1..Len(expected) :
                 rule.v.ports.v[i] =
                     PyDict([protocol |-> PyStr("TCP"), port |-> expected[i]])
    /\ Len(d.v.spec.v.egress.v) = 1
    /\ d.v.spec.v.egress.v[1].v.to = PyList(<<>>)
    /\ d.v.spec.v.egress.v[1].v.ports =
           PyList(<<PyDict([protocol |-> PyStr("UDP"), port |-> PyInt(53)])>>)

ThreeDefaultPorts == <<PyInt(80), PyInt(8080), PyInt(443)>>

\* C9 as stated: one TCP entry per given port, 80/8080/443 when ports is omitted.
C9_PortsAsGiven ==
    MicroserviceCreated =>
        /\ Returned(last.result)
        /\ IsMicroservicePolicy(last.result.value, last.service_name,
                                last.allowed_services,
                                IF last.ports = Omitted THEN ThreeDefaultPorts
                                ELSE last.ports.v)

\* C9 amended: create_microservice_policy returns the isolation policy for
\* the service with one ingress rule (one podSelector per allowed service in
\* order, one TCP entry per given port in order, ports 80, 8080, 443 when
\* ports is omitted or is an empty list), one egress rule with an empty to
\* list and the single port UDP/53, and policyTypes ['Ingress', 'Egress'].
C9_PortsAsGivenUnlessEmpty ==
    MicroserviceCreated =>
        /\ Returned(last.result)
        /\ IsMicroservicePolicy(last.result.value, last.service_name,
                                last.allowed_services,
                                IF last.ports = Omitted \/ last.ports = PyList(<<>>)
                                THEN ThreeDefaultPorts
                                ELSE last.ports.v)

\* create_microservice_policy(..., ports=[]) has returned
C9_Witness ==
    /\ MicroserviceCreated
    /\ last.ports = PyList(<<>>)
    /\ Returned(last.result)
    /\ policies[Len(policies)] = last.result.value

IsPrefix(s, t) == Len(s) <= Len(t) /\ SubSeq(t, 1, Len(s)) = s

\* C10: every step of the generator leaves the old policies list a prefix of
\* the new one; a create call that returns appends exactly the returned
\* document, also when a policy of that name is already stored; every other
\* operation leaves the list as it was.
C10_StoreAppendOnly ==
    [][/\ IsPrefix(policies, policies')
       /\ IF last'.op \in {"create_isolation_policy", "create_microservice_policy"}
             /\ Returned(last'.result)
          THEN policies' = Append(policies, last'.result.value)
          ELSE policies' = policies]_vars

\* two policies of the same name are stored and the store has been exported
C10_Witness ==
    /\ Len(policies) = 2
    /\ policies[1].v.metadata.v.name = policies[2].v.metadata.v.name
    /\ last.op = "export_policies"
    /\ file = [exists |-> TRUE, stream |-> yaml_dump_all(policies)]

----------------------------------------------------------------------------
(* Properties of the in-memory lists                                       *)

\* the last call produced a document and returned it
ManagerProduced == Generated /\ Returned(last.result)
GeneratorProduced ==
    (IsolationCreated \/ MicroserviceCreated) /\ Returned(last.result)

LastOf(s) == s[Len(s)]

\* C11 as stated: right after a generating operation returns a document
\* (generate_basic_policy on the manager, create_isolation_policy or
\* create_microservice_policy on the generator) that document is the last
\* element of the producing instance's list, configs resp. policies.
C11_ProducedDocumentIsLastStored ==
    /\ ManagerProduced =>
           configs # <<>> /\ LastOf(configs) = last.result.value
    /\ GeneratorProduced =>
           policies # <<>> /\ LastOf(policies) = last.result.value

\* C11 amended: right after create_isolation_policy or
\* create_microservice_policy returns a document it is the last element of
\* the generator's policies; generate_basic_policy only hands its document
\* to the caller, and the manager's configs list stays empty.
C11_GeneratorKeepsManagerReturns ==
    /\ GeneratorProduced =>
           policies # <<>> /\ LastOf(policies) = last.result.value
    /\ ManagerProduced => config = last.result.value
    /\ configs = <<>>

\* the generator has stored two documents, the second by the call that just
\* returned, and the manager has generated one before
C11_Witness ==
    /\ GeneratorProduced
    /\ Len(policies) = 2
    /\ policies[1] # policies[2]
    /\ LastOf(policies) = last.result.value
    /\ config # EmptyDict

\* the app label get_policy_summary reports for a stored document
AppOf(p) ==
    IF HasKey(p.v.metadata.v.labels, "app")
    THEN p.v.metadata.v.labels.v.app
    ELSE PyStr("unknown")

\* C12: in every reachable state of the generator, get_policy_summary returns
\* total_policies equal to the number of stored policies, policy_names equal
\* to the stored names in store order with duplicates kept, namespaces equal
\* to the set of distinct stored namespaces and apps equal to the set of
\* distinct metadata.labels.app values ('unknown' for a document without an
\* app label), and the call leaves the store as it was.
C12_SummaryReflectsStore ==
    [][last'.op = "get_policy_summary" =>
          LET summary == last'.result.value
              stored == 1..Len(policies)
          IN /\ Returned(last'.result)
             /\ policies' = policies
             /\ summary.total_policies = Len(policies)
             /\ Len(summary.policy_names) = Len(policies)
             /\ \A i \in stored :
                    summary.policy_names[i] = policies[i].v.metadata.v.name
             /\ \A i \in stored :
                    /\ policies[i].v.metadata.v.namespace \in summary.namespaces
                    /\ AppOf(policies[i]) \in summary.apps
             /\ \A ns \in summary.namespaces :
                    \E i \in stored : policies[i].v.metadata.v.namespace = ns
             /\ \A app \in summary.apps :
                    \E i \in stored : AppOf(policies[i]) = app]_vars

\* the summary of a store holding two policies of one name in two namespaces
C12_Witness ==
    /\ last.op = "get_policy_summary"
    /\ Len(policies) = 2
    /\ last.result.value.policy_names[1] = last.result.value.policy_names[2]
    /\ Cardinality(last.result.value.namespaces) = 2
    /\ Cardinality(last.result.value.apps) = 1

----------------------------------------------------------------------------
(* Properties of saving and loading                                        *)

ValidDoc(d) == Returned(validate_network_policy(d))

SavedOne == last.op = "save_config_to_file" /\ Returned(last.result)
SavedMany == last.op = "save_multiple_configs" /\ Returned(last.result)
LoadedOne == last.op = "load_config_from_file"
LoadedMany == last.op = "load_multiple_configs"

\* C13: round trip. When save_config_to_file(d, p) has returned for a valid
\* document d and load_config_from_file(p) is the next call and can read p,
\* it returns a document equal to d: same keys, same values, same list
\* order, optional keys present or absent as in d.
C13_SaveLoadRoundTrip ==
    [][(/\ SavedOne
        /\ ValidDoc(last.arg)
        /\ last'.op = "load_config_from_file"
        /\ last'.access = "ok")
       => /\ Returned(last'.result)
          /\ last'.result.value = last.arg
          /\ config' = last.arg]_vars

\* the document without policyTypes and with a null ingress has been saved
\* and loaded back
C13_Witness ==
    /\ LoadedOne
    /\ Returned(last.result)
    /\ last.result.value = BareDoc
    /\ ~HasKey(last.result.value.v.spec, "policyTypes")
    /\ file = FileOf(yaml_dump(BareDoc))

\* the positions of the documents of a stream that are not null, and the
\* position of the j-th of them
KeptPositions(docs) == {i \in 1..Len(docs) : docs[i] # PyNone}
NthKept(docs, j) ==
    CHOOSE i \in KeptPositions(docs) :
        Cardinality({k \in KeptPositions(docs) : k < i}) = j - 1

\* C14: when save_multiple_configs([d1..dn], p) has returned for valid
\* documents and load_multiple_configs(p) is the next call and can read p, it
\* returns exactly n documents, the i-th equal to di and accepted by
\* validate_network_policy; and whatever stream is loaded, the result holds
\* the documents that are not null, in the order of the stream.
C14_SaveLoadMultipleRoundTrip ==
    [][/\ (/\ SavedMany
           /\ \A i \in 1..Len(last.arg) : ValidDoc(last.arg[i])
           /\ last'.op = "load_multiple_configs"
           /\ last'.access = "ok")
          => /\ Returned(last'.result)
             /\ Len(last'.result.value.v) = Len(last.arg)
             /\ \A i \in 1..Len(last.arg) :
                    /\ last'.result.value.v[i] = last.arg[i]
                    /\ ValidDoc(last'.result.value.v[i])
       /\ (last'.op = "load_multiple_configs" /\ Returned(last'.result))
          => LET docs == yaml_safe_load_all(file.stream)
                 loaded == last'.result.value.v
             IN /\ Len(loaded) = Cardinality(KeptPositions(docs))
                /\ \A j \in 1..Len(loaded) : loaded[j] = docs[NthKept(docs, j)]]_vars

\* two different documents have been saved in one stream and loaded back
C14_Witness ==
    /\ LoadedMany
    /\ Returned(last.result)
    /\ last.result.value = PyList(<<RuledDoc, UnnamedDoc>>)
    /\ file = FileOf(yaml_dump_all(<<RuledDoc, UnnamedDoc>>))

\* b holds the characters of a in a row
SeqContains(a, b) ==
    \E i \in 1..(Len(b) + 1) :
        /\ i + Len(a) - 1 <= Len(b)
        /\ SubSeq(b, i, i + Len(a) - 1) = a

\* marker in str(e) for the exception of a failed call
MessageHas(r, marker) == SeqContains(Chars(marker), MessageChars(r))

\* what load_config_from_file finds under the path
FileMissing == ~file.exists
FileUnparsable ==
    file.exists /\ ("stream" \notin DOMAIN file \/ Len(file.stream) > 1)
FileEmpty ==
    /\ file.exists /\ "stream" \in DOMAIN file
    /\ \/ file.stream = <<>>
       \/ Len(file.stream) = 1 /\ yaml_construct(file.stream[1]) = PyNone

\* C15 as stated: load_config_from_file on a file whose parsed content is
\* empty or null fails with ConfigValidationError 'Empty configuration file:
\* <path>', not with 'Invalid YAML ...', and does not return None.
C15_EmptyFileError ==
    LoadedOne /\ last.access = "ok" /\ FileEmpty =>
        /\ Raised(last.result, "ConfigValidationError")
        /\ MessageChars(last.result)
               = Chars("Empty configuration file: ") \o Chars(Path.v)
        /\ ~MessageHas(last.result, "Invalid YAML")

\* C16: load_config_from_file on a missing path fails with a message
\* containing 'not found'; a parse failure gives 'Invalid YAML in <path>:
\* <underlying>'; an empty document gives a message containing 'Empty
\* configuration'; and the message of each cause contains the marker of
\* neither of the other two.
C16_LoadFailuresDistinguishable ==
    LoadedOne =>
        /\ FileMissing =>
               /\ Raised(last.result, "ConfigValidationError")
               /\ MessageHas(last.result, "not found")
               /\ ~MessageHas(last.result, "Invalid YAML")
               /\ ~MessageHas(last.result, "Empty configuration")
        /\ last.access = "ok" /\ FileUnparsable =>
               /\ Raised(last.result, "ConfigValidationError")
               /\ last.result.text = "Invalid YAML in "
               /\ last.result.args[1] = Path
               /\ Raised(last.result.args[2], "YAMLError")
               /\ ~MessageHas(last.result, "not found")
               /\ ~MessageHas(last.result, "Empty configuration")
        /\ last.access = "ok" /\ FileEmpty =>
               /\ Raised(last.result, "ConfigValidationError")
               /\ MessageHas(last.result, "Empty configuration")
               /\ ~MessageHas(last.result, "not found")
               /\ ~MessageHas(last.result, "Invalid YAML")

\* a load from a path holding nothing has failed
C16_Witness ==
    /\ LoadedOne
    /\ FileMissing
    /\ MessageChars(last.result)
           = Chars("Configuration file not found: ") \o Chars(Path.v)

ManagerFileOps ==
    {"load_config_from_file", "load_multiple_configs",
     "save_config_to_file", "save_multiple_configs"}

Exported == last.op = "export_policies"

\* C17 as stated: a persistence operation of the manager or the generator
\* that fails raises ConfigValidationError and nothing else.
C17_FailuresAreConfigValidationErrors ==
    (last.op \in ManagerFileOps \/ Exported) /\ ~Returned(last.result) =>
        Raised(last.result, "ConfigValidationError")

\* C17 amended: a load or save of the manager that fails raises
\* ConfigValidationError and nothing else, and it does fail when the file
\* cannot be opened; export_policies on the generator passes the error of
\* the file system on as it is, and fails when policies are stored and the
\* file cannot be written.
C17_ManagerWrapsGeneratorReraises ==
    /\ last.op \in ManagerFileOps =>
           /\ Returned(last.result) \/ Raised(last.result, "ConfigValidationError")
           /\ last.access # "ok" => Raised(last.result, "ConfigValidationError")
    /\ Exported =>
           /\ Returned(last.result) \/ Raised(last.result, "OSError")
           /\ policies # <<>> /\ ~last.writable => Raised(last.result, "OSError")

\* a save over an existing file has been refused by the file system
C17_Witness ==
    /\ last.op = "save_config_to_file"
    /\ last.access = "PermissionError"
    /\ Raised(last.result, "ConfigValidationError")
    /\ file.exists

----------------------------------------------------------------------------
(* Properties of create_isolation_policy's own validation                  *)

----------------------------------------------------------------------------
(* Frame properties                                                        *)

HasTypeList(d) ==
    /\ HasKey(d, "spec") /\ HasKey(d.v.spec, "policyTypes")
    /\ d.v.spec.v.policyTypes.t = "list"

TypesOf(d) == d.v.spec.v.policyTypes.v

\* the spec.policyTypes entry of d, whatever it is
TypesEntry(d) ==
    IF HasKey(d, "spec") /\ HasKey(d.v.spec, "policyTypes")
    THEN d.v.spec.v.policyTypes
    ELSE Absent

\* C20: add_ingress_rule appends 'Ingress' to a spec.policyTypes list only
\* when the list does not hold it, and then at the end; a list that holds
\* 'Ingress', once or more often, is left exactly as it is; whatever else
\* spec.policyTypes is stays as it is.
C20_IngressTypeNeverDuplicated ==
    [][last'.op = "add_ingress_rule" =>
          IF HasTypeList(config)
          THEN /\ HasTypeList(config')
               /\ IF InList(PyStr("Ingress"), TypesOf(config))
                     \/ ~Returned(last'.result)
                  THEN TypesOf(config') = TypesOf(config)
                  ELSE TypesOf(config') = Append(TypesOf(config), PyStr("Ingress"))
          ELSE TypesEntry(config') = TypesEntry(config)]_vars

\* two rules have been added to a document that came with ['Egress']: the
\* first call appended 'Ingress', the second found it
C20_Witness ==
    /\ RuleAdded
    /\ Returned(last.result)
    /\ IngressCount(config) = 2
    /\ HasTypeList(last.arg)
    /\ TypesOf(last.arg) = <<PyStr("Egress"), PyStr("Ingress")>>
    /\ TypesOf(config) = <<PyStr("Egress"), PyStr("Ingress")>>

----------------------------------------------------------------------------
(* Properties of add_ingress_rule                                          *)

\* C21: for every document the validator accepts, also one without
\* spec.policyTypes, add_ingress_rule returns and the validator accepts the
\* document it leaves.
C21_RuleAdditionKeepsValidity ==
    RuleAdded /\ ValidDoc(last.arg) =>
        /\ Returned(last.result)
        /\ ValidDoc(config)

\* the ingress rules of d, none when d has no list of them
IngressRules(d) == IF HasIngressList(d) THEN d.v.spec.v.ingress.v ELSE <<>>

\* d and e agree on every key of dict d other than those in keys
SameExcept(d, e, keys) ==
    /\ e.t = "dict"
    /\ DOMAIN d.v \ keys = DOMAIN e.v \ keys
    /\ \A k \in DOMAIN d.v \ keys : e.v[k] = d.v[k]

\* C22: add_ingress_rule changes the document it was given and returns that
\* document; apiVersion, kind, metadata, spec.podSelector, spec.egress and
\* every other key than spec.ingress and spec.policyTypes stay as they were;
\* the ingress rules that were there stay, in order, in front of the new
\* rule; and the manager's configs stay as they were.
C22_RuleAdditionFrame ==
    [][last'.op = "add_ingress_rule" =>
          /\ configs' = configs
          /\ Returned(last'.result) => last'.result.value = config'
          /\ SameExcept(config, config', {"spec"})
          /\ HasKey(config, "spec") =>
                /\ HasKey(config', "spec")
                /\ IF config.v.spec.t = "dict"
                   THEN SameExcept(config.v.spec, config'.v.spec,
                                   {"ingress", "policyTypes"})
                   ELSE config'.v.spec = config.v.spec
          /\ IsPrefix(IngressRules(config), IngressRules(config'))
          /\ Len(IngressRules(config')) <= Len(IngressRules(config)) + 1
          /\ Returned(last'.result) =>
                /\ Len(IngressRules(config')) = Len(IngressRules(config)) + 1
                /\ LastOf(IngressRules(config')).v.from = last'.from_selectors]_vars

\* a rule has been added behind the existing rule of a policy with egress
C22_Witness ==
    /\ RuleAdded
    /\ Returned(last.result)
    /\ last.arg = EgressDoc
    /\ config.v.spec.v.egress = DnsEgress
    /\ Len(IngressRules(config)) = 2
    /\ IngressRules(config)[1] = ExistingRule

----------------------------------------------------------------------------
(* The shape of spec.policyTypes                                           *)

\* the otherwise valid documents whose spec.policyTypes is there and is not
\* a list
HasNonListTypes(d) ==
    /\ OtherwiseValid(d)
    /\ HasKey(d.v.spec, "policyTypes")
    /\ d.v.spec.v.policyTypes.t # "list"

\* C23: validate_network_policy rejects with ConfigValidationError every
\* otherwise valid document whose spec.policyTypes is present and is not a
\* list: a string, also the empty one, a mapping, a number or null.
C23_NonListPolicyTypesRejected ==
    Validated /\ HasNonListTypes(last.arg) =>
        Raised(last.result, "ConfigValidationError")

----------------------------------------------------------------------------
(* The ConfigValidator applied to the documents a caller holds             *)

\* one sub-check of the ConfigValidator on the document held
StrictCheck(op, result) ==
    /\ last' = [op |-> op, arg |-> config, result |-> result]
    /\ UNCHANGED <<config, configs, policies, file, workflow>>

ValidateBasicStructure == StrictCheck("validate_basic_structure", validate_basic_structure(config))
ValidateApiVersion == StrictCheck("validate_api_version", validate_api_version(config))
ValidateKind == StrictCheck("validate_kind", validate_kind(config))
ValidateMetadata == StrictCheck("validate_metadata", validate_metadata(config))
ValidateSpec == StrictCheck("validate_spec", validate_spec(config))

StrictInit ==
    /\ config \in StrictDocs
    /\ configs = <<>>
    /\ policies = <<>>
    /\ file = NoFile
    /\ processed_policies = <<>>
    /\ validation_errors = <<>>
    /\ operation_log = <<>>
    /\ last = NoCall

StrictNext ==
    \/ ValidateBasicStructure
    \/ ValidateApiVersion
    \/ ValidateKind
    \/ ValidateMetadata
    \/ ValidateSpec
    \/ ValidateNetworkPolicy

StrictSpec == StrictInit /\ [][StrictNext]_vars

\* a name that follows the naming convention
ConventionalName(name) ==
    LET cs == Chars(name)
    IN /\ \E i \in 1..Len(cs) : cs[i] \notin WhitespaceChars
       /\ \A i \in 1..Len(cs) : cs[i] \in AlnumChars \cup {".", "-"}
       /\ cs[1] # "-"
       /\ cs[Len(cs)] # "-"

HasConventionalName(d) ==
    /\ HasKey(d, "metadata")
    /\ HasKey(d.v.metadata, "name")
    /\ d.v.metadata.v.name.t = "str"
    /\ ConventionalName(d.v.metadata.v.name.v)

\* C24: validate_metadata of the ConfigValidator accepts a document exactly
\* when its metadata is a mapping whose name is a string that is non-empty
\* after stripping, made of alphanumerics, '.' and '-' only, and neither
\* starts nor ends with '-'; it rejects every other document with
\* ConfigValidationError
C24_NamingConvention ==
    last.op = "validate_metadata" =>
        IF HasConventionalName(last.arg)
        THEN last.result = Return(PyBool(TRUE))
        ELSE Raised(last.result, "ConfigValidationError")

C24_Witness ==
    /\ last.op = "validate_metadata"
    /\ Returned(last.result)
    /\ last.arg.v.metadata.v.name = PyStr("123-name")

\* all five sub-checks of the ConfigValidator succeed on d
StrictAccepts(d) ==
    /\ Returned(validate_basic_structure(d))
    /\ Returned(validate_api_version(d))
    /\ Returned(validate_kind(d))
    /\ Returned(validate_metadata(d))
    /\ Returned(validate_spec(d))

\* C28 (as stated): every document on which the five sub-checks of the
\* ConfigValidator succeed is accepted by validate_network_policy
C28_StrictIsSubsetOfManager ==
    Validated /\ StrictAccepts(last.arg) => Returned(last.result)

\* C28 (amended): every document with apiVersion networking.k8s.io/v1 on
\* which the five sub-checks of the ConfigValidator succeed is accepted by
\* validate_network_policy
C28_StrictV1IsSubsetOfManager ==
    /\ Validated
    /\ StrictAccepts(last.arg)
    /\ last.arg.v.apiVersion = validation_rules.api_version
    => last.result = Return(PyBool(TRUE))

C28_Witness ==
    /\ Validated
    /\ StrictAccepts(last.arg)
    /\ last.arg.v.apiVersion = validation_rules.api_version
    /\ HasKey(last.arg.v.spec, "policyTypes")
    /\ Returned(last.result)

\* C25: export_policies on a store of n >= 1 policies, to a file that can be
\* written, leaves a stream of exactly those n documents in store order, each
\* of kind NetworkPolicy, and leaves the store as it was
C25_ExportWritesStoreInOrder ==
    [][(/\ last'.op = "export_policies"
        /\ last'.writable
        /\ policies # <<>>)
       => /\ Returned(last'.result)
          /\ policies' = policies
          /\ file'.exists
          /\ Len(file'.stream) = Len(policies)
          /\ yaml_safe_load_all(file'.stream) = policies
          /\ \A i \in 1..Len(file'.stream) :
                 yaml_construct(file'.stream[i]).v.kind = PyStr("NetworkPolicy")]_vars

C25_Witness ==
    /\ last.op = "export_policies"
    /\ Returned(last.result)
    /\ Len(policies) = 2
    /\ policies[1] # policies[2]
    /\ file.exists
    /\ yaml_safe_load_all(file.stream) = policies

----------------------------------------------------------------------------
(* The generator's validate_policy applied to arbitrary inputs             *)

\* inputs that are not mappings
ShapelessPolicies ==
    {PyNone, PyInt(1),
     PyList(<<PyStr("apiVersion"), PyStr("kind"), PyStr("metadata"), PyStr("spec")>>)}

\* what create_isolation_policy('production', 'web-app') leaves in the store
IsolationDoc ==
    BuildIsolationPolicy(PyStr("production"), PyStr("web-app"), Omitted, Omitted)

PolicyValidatorInit ==
    /\ config \in CandidateDocs \cup ShapelessPolicies
    /\ configs = <<>>
    /\ policies \in {<<>>, <<IsolationDoc>>}
    /\ file = NoFile
    /\ processed_policies = <<>>
    /\ validation_errors = <<>>
    /\ operation_log = <<>>
    /\ last = NoCall

PolicyValidatorNext == ValidatePolicy(config)

PolicyValidatorSpec == PolicyValidatorInit /\ [][PolicyValidatorNext]_vars

\* every check of validate_policy can be evaluated on d and passes
PassesPolicyChecks(d) ==
    /\ d.t = "dict"
    /\ {"apiVersion", "kind", "metadata", "spec"} \subseteq DOMAIN d.v
    /\ d.v.apiVersion = PyStr("networking.k8s.io/v1")
    /\ d.v.kind = PyStr("NetworkPolicy")
    /\ d.v.metadata.t = "dict"
    /\ HasKey(d.v.metadata, "name")
    /\ Truthy(d.v.metadata.v.name)
    /\ d.v.spec.t = "dict"
    /\ {"podSelector", "policyTypes"} \subseteq DOMAIN d.v.spec.v
    /\ Iterable(d.v.spec.v.policyTypes)
    /\ \A i \in 1..Len(Iter(d.v.spec.v.policyTypes)) :
           Iter(d.v.spec.v.policyTypes)[i] \in {PyStr("Ingress"), PyStr("Egress")}

\* C26: validate_policy returns a boolean for every input, True exactly when
\* all its checks pass, never raises, and changes neither its input nor the
\* store
C26_ValidatePolicyIsTotal ==
    [][last'.op = "validate_policy"
       => /\ Returned(last'.result)
          /\ last'.result.value \in {PyBool(TRUE), PyBool(FALSE)}
          /\ last'.result.value = PyBool(TRUE) <=> PassesPolicyChecks(last'.arg)
          /\ last'.arg = config
          /\ config' = config
          /\ policies' = policies]_vars

C26_Witness ==
    /\ last.op = "validate_policy"
    /\ last.result = Return(PyBool(FALSE))
    /\ HasKey(last.arg, "spec")
    /\ HasKey(last.arg.v.spec, "policyTypes")
    /\ last.arg.v.spec.v.policyTypes = PyInt(1)
    /\ HasKey(last.arg, "metadata")
    /\ HasKey(last.arg.v.metadata, "name")
    /\ Truthy(last.arg.v.metadata.v.name)
    /\ policies # <<>>

\* metadata.name of d is empty: '' or null, what `not name` holds for
EmptyName(d) ==
    /\ HasKey(d, "metadata")
    /\ HasKey(d.v.metadata, "name")
    /\ ~Truthy(d.v.metadata.v.name)

\* C29: every mapping-shaped document on which validate_policy returns True
\* is accepted by validate_network_policy; a document the manager accepts
\* and the generator turns down has an empty metadata.name or no
\* spec.policyTypes
C29_GeneratorRefinesManager ==
    last.op = "validate_policy" /\ last.arg.t = "dict" =>
        /\ last.result.value = PyBool(TRUE) => ValidDoc(last.arg)
        /\ ValidDoc(last.arg) /\ last.result.value = PyBool(FALSE)
           => EmptyName(last.arg) \/ ~HasKey(last.arg.v.spec, "policyTypes")

C29_Witness ==
    /\ last.op = "validate_policy"
    /\ last.result.value = PyBool(TRUE)
    /\ ValidDoc(last.arg)
    /\ last.arg.v.spec.v.policyTypes = PyList(<<PyStr("Ingress"), PyStr("Egress")>>)

Created == last.op \in {"create_isolation_policy", "create_microservice_policy"}

\* C30: every document in the generator's store passes validate_policy, and
\* every create_isolation_policy or create_microservice_policy call returns
\* the document it has appended to the store; the branch that raises for a
\* failed validation is never taken
C30_StoredPoliciesPassValidation ==
    /\ \A i \in 1..Len(policies) : validate_policy(policies[i]) = PyBool(TRUE)
    /\ Created =>
           /\ Returned(last.result)
           /\ policies # <<>>
           /\ LastOf(policies) = last.result.value
           /\ validate_policy(last.result.value) = PyBool(TRUE)

C30_Witness ==
    /\ last.op = "create_microservice_policy"
    /\ Returned(last.result)
    /\ Len(policies) = 2
    /\ policies[1].v.spec.v.policyTypes = PyList(<<PyStr("Ingress")>>)
    /\ \A i \in 1..Len(policies) : validate_policy(policies[i]) = PyBool(TRUE)

----------------------------------------------------------------------------
(* NetworkPolicyWorkflow of examples/step6_integration.py                  *)

MaxSpecs == 2       \* longest batch handed to batch_process_policies
MaxProcessed == 3   \* most policies and specs one workflow is given in all

\* lines 34-68: the templates of create_policy_from_template
templates ==
    "web-frontend" :>
        [policyTypes |-> PyList(<<PyStr("Ingress")>>),
         ingress_rules |->
             <<[from_selectors |-> PyList(<<EmptyDict>>),
                ports |-> PyList(<<TcpPort(80), TcpPort(443)>>)]>>]
    @@ "api-service" :>
        [policyTypes |-> PyList(<<PyStr("Ingress"), PyStr("Egress")>>),
         ingress_rules |->
             <<[from_selectors |-> PyList(<<FromPodSelector("frontend")>>),
                ports |-> PyList(<<TcpPort(8080)>>)]>>,
         egress_rules |->
             <<[to_selectors |-> PyList(<<FromPodSelector("database")>>),
                ports |-> PyList(<<TcpPort(5432)>>)]>>]
    @@ "database" :>
        [policyTypes |-> PyList(<<PyStr("Ingress")>>),
         ingress_rules |->
             <<[from_selectors |-> PyList(<<FromPodSelector("api")>>),
                ports |-> PyList(<<TcpPort(5432)>>)]>>]

\* the state of a workflow as the operators below pass it on
Workflow(processed, errors, log) ==
    [processed_policies |-> processed, validation_errors |-> errors,
     operation_log |-> log]

\* the effect of a workflow call: the workflow as the call leaves it, and its outcome
WorkflowEffect(wf, result) == [wf |-> wf, result |-> result]

Logged(wf, entry) ==
    Workflow(wf.processed_policies, wf.validation_errors,
             Append(wf.operation_log, entry))

\* str(e) of an exception whose message is a text followed by one
\* interpolated string
ExceptionText(e) ==
    IF e.args = <<>> THEN PyStr(e.text) ELSE PyStr(e.text \o e.args[1].v)

\* lines 83-89: add_ingress_rule for each rule of the template; the first
\* exception ends the loop
RECURSIVE ApplyIngressRules(_, _)
RulesAfter(added, rules) ==
    IF Returned(added.result) THEN ApplyIngressRules(added.doc, rules) ELSE added

ApplyIngressRules(policy, rules) ==
    IF rules = <<>> THEN Effect(policy, Return(policy))
    ELSE RulesAfter(add_ingress_rule(policy, Head(rules).from_selectors,
                                     Head(rules).ports),
                    Tail(rules))

\* lines 96-100: the egress rule built from a template rule
EgressRule(rule) ==
    IF "ports" \in DOMAIN rule
    THEN PyDict([to |-> rule.to_selectors, ports |-> rule.ports])
    ELSE PyDict([to |-> rule.to_selectors])

\* lines 92-100
ApplyEgressRules(policy, template) ==
    IF "egress_rules" \notin DOMAIN template THEN policy
    ELSE LET existing == IF "egress" \in DOMAIN policy.v.spec.v
                         THEN policy.v.spec.v.egress.v ELSE <<>>
             rules == [i \in 1..Len(template.egress_rules) |->
                          EgressRule(template.egress_rules[i])]
         IN DictSet(policy, "spec",
                    DictSet(policy.v.spec, "egress", PyList(existing \o rules)))

\* lines 91-102: the egress rules are attached unless add_ingress_rule raised
FinishTemplate(wf, template, ruled) ==
    IF ~Returned(ruled.result) THEN WorkflowEffect(wf, ruled.result)
    ELSE WorkflowEffect(wf, Return(ApplyEgressRules(ruled.doc, template)))

\* lines 80-102: the template applied to the generated policy
ApplyTemplate(wf, template, policy) ==
    FinishTemplate(wf, template,
                   ApplyIngressRules(
                       DictSet(policy, "spec",
                               DictSet(policy.v.spec, "policyTypes",
                                       template.policyTypes)),
                       template.ingress_rules))

\* create_policy_from_template(template_name, policy_name, namespace, app_label),
\* lines 32-102
create_policy_from_template(wf, template_name, policy_name, namespace, app_label) ==
    IF ~(template_name.t = "str" /\ template_name.v \in DOMAIN templates)
    THEN WorkflowEffect(wf, Raise("ValueError", 71, "Unknown template: ",
                                  <<template_name>>))
    ELSE ApplyTemplate(Logged(wf, <<"Creating policy", policy_name, template_name>>),
                       templates[template_name.v],
                       generate_basic_policy(policy_name, namespace, app_label))

\* line 112: policy.get('metadata', {}).get('name', 'unknown')
NameOrUnknown(policy) ==
    DictGet(DictGet(policy, "metadata", EmptyDict), "name", PyStr("unknown"))

\* lines 106-114: what follows the manager's verdict on the policy
AfterVerdict(wf, policy, verdict) ==
    IF Returned(verdict) /\ Truthy(verdict.value)
    THEN WorkflowEffect(
             Logged(Workflow(Append(wf.processed_policies, policy),
                             wf.validation_errors, wf.operation_log),
                    <<"Validated and processed policy", policy.v.metadata.v.name>>),
             Return(PyBool(TRUE)))
    ELSE IF Returned(verdict) THEN WorkflowEffect(wf, Return(PyNone))
    ELSE IF Raised(verdict, "ConfigValidationError")
    THEN IF DictGet(policy, "metadata", EmptyDict).t # "dict"
         THEN WorkflowEffect(wf, Raise("AttributeError", 112, "", <<>>))
         ELSE WorkflowEffect(
                  Logged(Workflow(wf.processed_policies,
                                  Append(wf.validation_errors,
                                         <<NameOrUnknown(policy),
                                           ExceptionText(verdict)>>),
                                  wf.operation_log),
                         <<"Validation failed for policy", ExceptionText(verdict)>>),
                  Return(PyBool(FALSE)))
    ELSE WorkflowEffect(wf, verdict)

\* validate_and_process_policy(policy), lines 104-114
validate_and_process_policy(wf, policy) ==
    AfterVerdict(wf, policy, validate_network_policy(policy))

\* lines 122-129: the policy a spec asks for
PolicyOfSpec(wf, spec) ==
    IF "template" \in DOMAIN spec.v
    THEN create_policy_from_template(wf, spec.v.template, spec.v.name,
                                     spec.v.namespace, spec.v.app)
    ELSE WorkflowEffect(wf, Return(generate_basic_policy(spec.v.name,
                                                         spec.v.namespace,
                                                         spec.v.app)))

\* lines 134-136: the except clause of the loop body
SpecFailed(wf, spec, e) ==
    WorkflowEffect(Workflow(wf.processed_policies,
                            Append(wf.validation_errors,
                                   <<spec.v.name, ExceptionText(e)>>),
                            wf.operation_log),
                   <<spec.v.name, PyBool(FALSE), PyNone>>)

\* lines 131-132: the tuple appended to results once the policy is checked
SpecChecked(spec, policy, checked) ==
    IF ~Returned(checked.result) THEN SpecFailed(checked.wf, spec, checked.result)
    ELSE WorkflowEffect(checked.wf,
                        <<spec.v.name, checked.result.value,
                          IF Truthy(checked.result.value) THEN policy ELSE PyNone>>)

\* lines 131-136: the policy of a spec is checked, unless creating it raised
SpecCreated(spec, created) ==
    IF ~Returned(created.result) THEN SpecFailed(created.wf, spec, created.result)
    ELSE SpecChecked(spec, created.result.value,
                     validate_and_process_policy(created.wf, created.result.value))

\* lines 120-136: one turn of the loop; the result is the tuple appended to results
ProcessSpec(wf, spec) == SpecCreated(spec, PolicyOfSpec(wf, spec))

\* the results of a batch, the result of its first spec put in front
Prepended(first, rest) == WorkflowEffect(rest.wf, <<first>> \o rest.result)

RECURSIVE batch_process_policies_until_failure(_, _)
RECURSIVE batch_process_policies(_, _)

\* a variant of the loop that ends at the first failing spec
BatchAfterUntilFailure(first, policy_specs) ==
    IF first.result[2] # PyBool(TRUE) THEN WorkflowEffect(first.wf, <<first.result>>)
    ELSE Prepended(first.result,
                   batch_process_policies_until_failure(first.wf, policy_specs))

\* lines 120-136: the rest of the loop after one turn
BatchAfter(first, policy_specs) ==
    Prepended(first.result, batch_process_policies(first.wf, policy_specs))

\* a variant that leaves the loop at the first failing spec
batch_process_policies_until_failure(wf, policy_specs) ==
    IF policy_specs = <<>> THEN WorkflowEffect(wf, <<>>)
    ELSE BatchAfterUntilFailure(ProcessSpec(wf, Head(policy_specs)), Tail(policy_specs))

\* batch_process_policies(policy_specs), lines 116-138: the workflow as the
\* loop leaves it and the list of results
batch_process_policies(wf, policy_specs) ==
    IF policy_specs = <<>> THEN WorkflowEffect(wf, <<>>)
    ELSE BatchAfter(ProcessSpec(wf, Head(policy_specs)), Tail(policy_specs))

\* the specs of test_error_handling_and_recovery and sample_policy_specs
PolicySpec(name, app) ==
    PyDict([name |-> PyStr(name), namespace |-> PyStr("test"), app |-> PyStr(app)])

PolicySpecs ==
    {PolicySpec("valid-1", "app1"),
     DictSet(PolicySpec("valid-2", "app2"), "template", PyStr("web-frontend")),
     DictSet(PolicySpec("api-policy", "api-service"), "template", PyStr("api-service")),
     DictSet(PolicySpec("invalid-template", "app3"), "template", PyStr("nonexistent"))}

SpecBatches == SeqsUpTo(PolicySpecs, MaxSpecs)

\* policies handed to validate_and_process_policy directly: a generated one,
\* one without a name and one without a podSelector
DirectPolicies ==
    {GeneratedDoc,
     DictSet(GeneratedDoc, "metadata", EmptyDict),
     DictSet(GeneratedDoc, "spec", EmptyDict)}

CurrentWorkflow == Workflow(processed_policies, validation_errors, operation_log)

Given == Len(processed_policies) + Len(validation_errors)

WorkflowBecomes(wf) ==
    /\ processed_policies' = wf.processed_policies
    /\ validation_errors' = wf.validation_errors
    /\ operation_log' = wf.operation_log

\* a workflow call leaves the workflow call.wf and the outcome call.result
WorkflowCall(call, record) ==
    /\ WorkflowBecomes(call.wf)
    /\ last' = [record EXCEPT !.result = call.result]
    /\ UNCHANGED <<config, configs, policies, file>>

BatchProcessPolicies(policy_specs) ==
    /\ Given + Len(policy_specs) <= MaxProcessed
    /\ WorkflowCall(batch_process_policies(CurrentWorkflow, policy_specs),
                    [op |-> "batch_process_policies", policy_specs |-> policy_specs,
                     result |-> <<>>])

ValidateAndProcessPolicy(policy) ==
    /\ Given < MaxProcessed
    /\ WorkflowCall(validate_and_process_policy(CurrentWorkflow, policy),
                    [op |-> "validate_and_process_policy", arg |-> policy,
                     result |-> <<>>])

WorkflowInit ==
    /\ config = EmptyDict
    /\ configs = <<>>
    /\ policies = <<>>
    /\ file = NoFile
    /\ processed_policies = <<>>
    /\ validation_errors = <<>>
    /\ operation_log = <<>>
    /\ last = NoCall

WorkflowNext ==
    \/ \E policy_specs \in SpecBatches : BatchProcessPolicies(policy_specs)
    \/ \E policy \in DirectPolicies : ValidateAndProcessPolicy(policy)

WorkflowSpec == WorkflowInit /\ [][WorkflowNext]_vars

Succeeded(results) == SelectSeq(results, LAMBDA r : r[2] = PyBool(TRUE))
Failed(results) == SelectSeq(results, LAMBDA r : r[2] # PyBool(TRUE))

\* a spec without a template, or with one of the three templates
KnownSpec(spec) ==
    "template" \in DOMAIN spec.v
        => spec.v.template \in {PyStr("web-frontend"), PyStr("api-service"),
                                PyStr("database")}

\* C27: batch_process_policies returns one result per spec, in input order;
\* each spec adds one entry either to processed_policies (its result carries
\* True and the policy appended) or to validation_errors (its result carries
\* False and no policy), whatever happened to the specs before it and in
\* earlier batches; and no step of the workflow removes an entry of either
\* list
C27_BatchProcessesEverySpec ==
    [][/\ IsPrefix(processed_policies, processed_policies')
       /\ IsPrefix(validation_errors, validation_errors')
       /\ last'.op = "batch_process_policies" =>
              LET specs == last'.policy_specs
                  results == last'.result
                  ok == Succeeded(results)
                  ko == Failed(results)
              IN /\ Len(results) = Len(specs)
                 /\ \A i \in 1..Len(specs) :
                        /\ results[i][1] = specs[i].v.name
                        /\ results[i][2] \in {PyBool(TRUE), PyBool(FALSE)}
                        /\ results[i][2] = PyBool(TRUE) <=> KnownSpec(specs[i])
                 /\ processed_policies' =
                        processed_policies \o [j \in 1..Len(ok) |-> ok[j][3]]
                 /\ Len(validation_errors') = Len(validation_errors) + Len(ko)
                 /\ \A j \in 1..Len(ko) :
                        /\ validation_errors'[Len(validation_errors) + j][1] = ko[j][1]
                        /\ ko[j][3] = PyNone]_vars

C27_Witness ==
    /\ last.op = "batch_process_policies"
    /\ Len(last.policy_specs) = 2
    /\ last.result[1][2] = PyBool(FALSE)
    /\ last.result[2][2] = PyBool(TRUE)
    /\ Len(validation_errors) = 2
    /\ Len(processed_policies) = 1
    /\ validation_errors[1] = <<PyStr("unknown"), PyStr("Missing metadata.name")>>
    /\ validation_errors[2] = <<PyStr("invalid-template"),
                                PyStr("Unknown template: nonexistent")>>

====
